---- MODULE Spec2Model ----
(***************************************************************************)
(* Email verification code hand-off of benjgrad/clawdbot.                  *)
(*                                                                         *)
(*   tools/browser_utils.py        _check_email_for_code  (the coordinator)*)
(*   skills/job-apply/scripts/fetch_verification_code.py  main             *)
(*                                                    (the Fetch Process)  *)
(*                                                                         *)
(* The coordinator and the Fetch Process are separate OS processes that    *)
(* share two files of one attempt directory; an operator may write the     *)
(* code file by hand.  Every step below is one atomic step of one of the   *)
(* three; file contents and messages are sequences of tokens, white space  *)
(* being the tokens " " and "\n".                                          *)
(***************************************************************************)
EXTENDS Integers, Sequences, FiniteSets, TLC

\* ------------------------------------------------------------------ bounds
MaxAttempts == 2        \* coordinator invocations on the attempt directory
MaxPolls == 2           \* largest number of polls a wait budget allows
MaxOperatorWrites == 1  \* manual writes of verification_code.txt

\* --------------------------------------------------------------- constants
poll_interval == 5

\* wait budgets (max_wait_seconds, passed to the child as --timeout):
\* negative, zero, one interval, and a budget that is no multiple of 5
Timeouts == {-1, 0, poll_interval, poll_interval * MaxPolls - 4}

WS == {" ", "\n"}

\* codes a mailbox poll can return (results of extract_code)
Codes == { <<"4", "8", "2", "9">>, <<"A", "B", "1", "2">> }

\* error strings a mailbox poll can return; a subject may end in white space
Errors == { <<"IMAP error: ", "e">>,
            <<"Email found but no code extracted. Subject: ", "s", " ">> }

\* what the operator may put into verification_code.txt
OperatorContents == { <<>>, <<" ", "\n">>, <<" ", "7", "7", "7", "7", "\n">> }

CodeFilePath == "<app_dir>/verification_code.txt"

\* ------------------------------------------------------------ pure helpers
RECURSIVE lstrip(_)
lstrip(s) == IF s # <<>> /\ Head(s) \in WS THEN lstrip(Tail(s)) ELSE s

RECURSIVE rstrip(_)
rstrip(s) ==
    IF s # <<>> /\ s[Len(s)] \in WS THEN rstrip(SubSeq(s, 1, Len(s) - 1)) ELSE s

\* str.strip()
strip(s) == rstrip(lstrip(s))

\* the (code, err) pairs check_imap returns; <<>> stands for None
PollOutcomes ==
    {[code |-> c, err |-> <<>>] : c \in Codes}
      \cup {[code |-> <<>>, err |-> e] : e \in Errors}
      \cup {[code |-> <<>>, err |-> <<>>]}

\* the message main() writes on timeout
TimeoutMsg(timeout, last_error) ==
    <<"No verification code found after ", ToString(timeout), "s.">>
      \o (IF last_error # <<>> THEN <<" Last error: ">> \o last_error ELSE <<>>)

NoPasswordMsg == <<"GMAIL_APP_PASSWORD not set. Cannot check email.">>

\* ActionResult values of the coordinator
SuccessResult(code) ==
    [kind |-> "success", success |-> TRUE,
     text |-> <<"Verification code: ">> \o code]

ChildErrorResult(err) ==
    [kind |-> "child_error", success |-> FALSE,
     text |-> <<"Email check failed: ">> \o err]

TimeoutResult(secs) ==
    [kind |-> "timeout", success |-> FALSE,
     text |-> <<"No verification code found after ", ToString(secs), "s. ",
                "You can also manually write the code to: ", CodeFilePath>>]

SpawnFailedResult ==
    [kind |-> "spawn_failed", success |-> FALSE,
     text |-> <<"Failed to spawn email checker: ", "e">>]

NoResult == [kind |-> "none", success |-> FALSE, text |-> <<>>]

\* ------------------------------------------------------------------- state
VARIABLES
    code_file,      \* verification_code.txt
    error_file,     \* verification_error.txt
    cpc,            \* coordinator: position in _check_email_for_code
    attempt,        \* number of the current coordinator invocation
    max_wait_seconds,       \* max_wait_seconds of the current invocation
    elapsed,       \* elapsed of the coordinator's loop
    returncode,     \* proc.returncode as the event loop has it: <<>> is None
    result,         \* the ActionResult the invocation returned
    cpolls,         \* polls of the sentinel files in this invocation
    child,          \* the Fetch Process spawned by each invocation
    opwrites,       \* manual writes made so far
    unlinked,       \* the files the current invocation found and deleted
    fn_in,          \* a single call of extract_code or check_imap: its input
    fn_out,         \* and what the call returned
    session,        \* browser session daemon: locals and position of run_session
    clock,          \* time.time() of the daemon, in seconds
    browser_alive,  \* the browser process answers
    stdout,         \* the protocol lines the daemon has printed
    status_file,    \* status.json and the states written to it
    next_task_file, \* next_task.json
    result_file,    \* result.json
    written,        \* the next_task.json files written so far, and the caller's position
    ran,            \* the tasks the daemon has started, by task file
    db,             \* TaskDatabase: the rows of table tasks and its calls
    listed          \* what the last list_tasks call returned

vars == <<code_file, error_file, cpc, attempt, max_wait_seconds, elapsed, returncode,
          result, cpolls, child, opwrites, unlinked, fn_in, fn_out,
          session, clock, browser_alive, stdout, status_file, next_task_file,
          result_file, written, ran, db, listed>>

\* the variables of the single calls
fvars == <<fn_in, fn_out>>

\* the variables of the browser session daemon
svars == <<session, clock, browser_alive, stdout, status_file, next_task_file,
           result_file, written, ran>>

\* the variables of TaskDatabase
tvars == <<db, listed>>

Attempts == 1..MaxAttempts

\* a file: its content, and who wrote it during which invocation
\* (by: 0 the operator, a the Fetch Process of invocation a)
NoFile ==
    [exists |-> FALSE, content |-> <<>>, writer |-> "none", by |-> 0,
     attempt |-> 0]

FileWith(content, writer, by, during) ==
    [exists |-> TRUE, content |-> content, writer |-> writer, by |-> by,
     attempt |-> during]

\* a Fetch Process; polls, sleeps, opened and wrote record what the run did,
\* outs the err of every (code, err) its polls got, in order, and env_empty
\* that it started with neither password variable set
NoChild ==
    [status |-> "none", pc |-> "none", timeout |-> 0, elapsed |-> 0,
     last_error |-> <<>>, code |-> <<>>, msg |-> <<>>, has_pass |-> FALSE,
     polls |-> 0, sleeps |-> 0, opened |-> {}, wrote |-> {}, exitcode |-> <<>>,
     outs |-> <<>>, env_empty |-> FALSE]

\* a Fetch Process of an earlier invocation that no longer exists
GoneChild == [NoChild EXCEPT !.status = "gone"]

NewChild(timeout) ==
    [NoChild EXCEPT !.status = "running", !.pc = "start", !.timeout = timeout]

\* the attempt directory is empty and nothing runs
IdleHandOff ==
    /\ code_file = NoFile
    /\ error_file = NoFile
    /\ cpc = "idle"
    /\ attempt = 0
    /\ max_wait_seconds = 0
    /\ elapsed = 0
    /\ returncode = <<>>
    /\ result = NoResult
    /\ cpolls = 0
    /\ child = [a \in Attempts |-> NoChild]
    /\ opwrites = 0
    /\ unlinked = {}

\* nothing fails during a check
NoFault == [stage |-> "none", kind |-> "none", text |-> <<>>]

\* the IMAP server as one check sees it: the exception some call raises,
\* the answers of SEARCH and FETCH, and the stored messages by id
NoMailbox ==
    [fault |-> NoFault, search_status |-> "OK", msg_ids |-> <<>>,
     fetch_status |-> "OK", messages |-> <<>>]

\* no single call is made
NoCall == [fn |-> "none", text |-> <<>>, mailbox |-> NoMailbox, ch |-> NoChild]

\* code and error are the pair returned (<<>> is None), raised the exception
\* that left the function, combined the text handed to extract_code, ch the
\* Fetch Process after the loop body that made the call, second what a
\* second call on the same text returned
NoReturn ==
    [returned |-> FALSE, code |-> <<>>, error |-> <<>>, raised |-> "none",
     extracted |-> FALSE, combined |-> <<>>, polled |-> FALSE, ch |-> NoChild,
     twice |-> FALSE, second |-> <<>>]

\* a task of the daemon: the task file it came from (0 is --task) and its text
NoTask == [id |-> 0, instruction |-> <<>>]

\* no daemon runs
NoSession ==
    [pc |-> "none", max_lifetime |-> 0, idle_timeout |-> 0, session_start |-> 0,
     last_activity |-> 0, poll_count |-> 0, task |-> NoTask,
     task_data |-> [id |-> 0, object |-> TRUE, instruction |-> <<>>],
     result |-> [task |-> 0, errors |-> FALSE], browser_session |-> FALSE,
     initial |-> TRUE]

\* a file of the session directory that does not exist
NoSessionFile ==
    [exists |-> FALSE, id |-> 0, json |-> FALSE, object |-> FALSE,
     instruction |-> <<>>]

NoSessionFiles ==
    /\ clock = 0
    /\ browser_alive = FALSE
    /\ stdout = <<>>
    /\ status_file = <<>>
    /\ next_task_file = NoSessionFile
    /\ result_file = <<>>
    /\ written = [files |-> <<>>, open |-> FALSE]
    /\ ran = <<>>

\* no database is open
NoDatabase ==
    /\ db = [tasks |-> <<>>, calls |-> 0, lastrowid |-> 0]
    /\ listed = <<>>

Init ==
    /\ IdleHandOff
    /\ fn_in = NoCall
    /\ fn_out = NoReturn
    /\ session = NoSession
    /\ NoSessionFiles
    /\ NoDatabase

\* ------------------------------------------------------------- coordinator
\* a call of _check_email_for_code; an earlier call has returned, and its
\* proc object and every process that has ended are gone
Invoke(mw) ==
    /\ cpc \in {"idle", "done"}
    /\ attempt < MaxAttempts
    /\ attempt' = attempt + 1
    /\ max_wait_seconds' = mw
    /\ elapsed' = 0
    /\ cpolls' = 0
    /\ returncode' = <<>>
    /\ result' = NoResult
    /\ cpc' = "del_code"
    /\ child' = [a \in Attempts |->
                   IF child[a].status \in {"exited", "killed"} THEN GoneChild
                                                                ELSE child[a]]
    /\ unlinked' = {}
    /\ UNCHANGED <<code_file, error_file, opwrites>>
    /\ UNCHANGED <<fvars, svars, tvars>>

unlink_kept(f) == f

unlink_truncated(f) == IF f.exists THEN [f EXCEPT !.content = <<>>] ELSE f

\* "if f.exists(): f.unlink()": what is left of the file f
unlink(f) == NoFile

\* the loop "for f in (code_file, error_file)", first pass
DeleteCode ==
    /\ cpc = "del_code"
    /\ code_file' = unlink(code_file)
    /\ unlinked' = IF code_file.exists THEN unlinked \cup {"code"} ELSE unlinked
    /\ cpc' = "del_error"
    /\ UNCHANGED <<error_file, attempt, max_wait_seconds, elapsed, returncode, result,
                   cpolls, child, opwrites>>
    /\ UNCHANGED <<fvars, svars, tvars>>

\* the loop "for f in (code_file, error_file)", second pass
DeleteError ==
    /\ cpc = "del_error"
    /\ error_file' = unlink(error_file)
    /\ unlinked' = IF error_file.exists THEN unlinked \cup {"error"}
                                        ELSE unlinked
    /\ cpc' = "spawn"
    /\ UNCHANGED <<code_file, attempt, max_wait_seconds, elapsed, returncode, result,
                   cpolls, child, opwrites>>
    /\ UNCHANGED <<fvars, svars, tvars>>

\* asyncio.create_subprocess_exec(...) returned a process
Spawn ==
    /\ cpc = "spawn"
    /\ child' = [child EXCEPT ![attempt] = NewChild(max_wait_seconds)]
    /\ returncode' = <<>>
    /\ elapsed' = 0
    /\ cpc' = "poll"
    /\ UNCHANGED <<code_file, error_file, attempt, max_wait_seconds, result, cpolls,
                   opwrites, unlinked>>
    /\ UNCHANGED <<fvars, svars, tvars>>

\* asyncio.create_subprocess_exec(...) raised
SpawnFails ==
    /\ cpc = "spawn"
    /\ result' = SpawnFailedResult
    /\ cpc' = "done"
    /\ UNCHANGED <<code_file, error_file, attempt, max_wait_seconds, elapsed,
                   returncode, cpolls, child, opwrites, unlinked>>
    /\ UNCHANGED <<fvars, svars, tvars>>

KillIfRunning_never(ch, rc) == ch

KillIfRunning_if_reaped(ch, rc) ==
    IF rc # <<>> /\ ch.status = "running"
    THEN [ch EXCEPT !.status = "killed", !.exitcode = <<-9>>]
    ELSE ch

\* proc.kill() under "if proc.returncode is None"
KillIfRunning(ch, rc) ==
    IF rc = <<>> /\ ch.status = "running"
    THEN [ch EXCEPT !.status = "killed", !.exitcode = <<-9>>]
    ELSE ch

CodeSeen_any == code_file.exists

CodeSeen_unstripped == code_file.exists /\ code_file.content # <<>>

CodeSeen_after_error ==
    /\ code_file.exists
    /\ strip(code_file.content) # <<>>
    /\ ~(error_file.exists /\ returncode # <<>>)

\* "if code_file.exists(): code = code_file.read_text().strip(); if code"
CodeSeen == code_file.exists /\ strip(code_file.content) # <<>>

ErrorSeen_any == error_file.exists

\* "if error_file.exists() and proc.returncode is not None"
ErrorSeen == error_file.exists /\ returncode # <<>>

InBudget_inclusive(e, mw) == e <= mw

\* "while elapsed < max_wait_seconds"
InBudget(e, mw) == e < mw

\* one iteration of "while elapsed < max_wait_seconds" up to its return or
\* its sleep
Poll ==
    /\ cpc = "poll"
    /\ InBudget(elapsed, max_wait_seconds)
    /\ cpolls' = cpolls + 1
    /\ IF CodeSeen
       THEN /\ child' = [child EXCEPT
                           ![attempt] = KillIfRunning(@, returncode)]
            /\ result' = SuccessResult(strip(code_file.content))
            /\ cpc' = "done"
       ELSE IF ErrorSeen
       THEN /\ result' = ChildErrorResult(strip(error_file.content))
            /\ cpc' = "done"
            /\ UNCHANGED child
       ELSE /\ cpc' = "sleep"
            /\ UNCHANGED <<result, child>>
    /\ UNCHANGED <<code_file, error_file, attempt, max_wait_seconds, elapsed,
                   returncode, opwrites, unlinked>>
    /\ UNCHANGED <<fvars, svars, tvars>>

\* await asyncio.sleep(poll_interval); elapsed += poll_interval
Wake ==
    /\ cpc = "sleep"
    /\ elapsed' = elapsed + poll_interval
    /\ cpc' = "poll"
    /\ UNCHANGED <<code_file, error_file, attempt, max_wait_seconds, returncode,
                   result, cpolls, child, opwrites, unlinked>>
    /\ UNCHANGED <<fvars, svars, tvars>>

\* the event loop, running while the coordinator sleeps, learns of the
\* child's exit and sets proc.returncode
Reap ==
    /\ cpc = "sleep"
    /\ returncode = <<>>
    /\ child[attempt].status \in {"exited", "killed"}
    /\ returncode' = child[attempt].exitcode
    /\ UNCHANGED <<code_file, error_file, cpc, attempt, max_wait_seconds, elapsed,
                   result, cpolls, child, opwrites, unlinked>>
    /\ UNCHANGED <<fvars, svars, tvars>>

\* the while loop ends: kill the child if still running, timeout error
TimeOut ==
    /\ cpc = "poll"
    /\ ~InBudget(elapsed, max_wait_seconds)
    /\ child' = [child EXCEPT ![attempt] = KillIfRunning(@, returncode)]
    /\ result' = TimeoutResult(max_wait_seconds)
    /\ cpc' = "done"
    /\ UNCHANGED <<code_file, error_file, attempt, max_wait_seconds, elapsed,
                   returncode, cpolls, opwrites, unlinked>>
    /\ UNCHANGED <<fvars, svars, tvars>>

\* ----------------------------------------------------------- Fetch Process
Running(a) == child[a].status = "running"

\* the two password variables of the process environment; "" is a variable
\* that is unset or empty (os.environ.get gives None or "", both falsy)
Environments ==
    { [GMAIL_APP_PASSWORD |-> "", EMAIL_PASSWORD |-> ""],
      [GMAIL_APP_PASSWORD |-> "pw", EMAIL_PASSWORD |-> ""],
      [GMAIL_APP_PASSWORD |-> "", EMAIL_PASSWORD |-> "pw2"] }

\* os.environ.get("GMAIL_APP_PASSWORD") or os.environ.get("EMAIL_PASSWORD")
gmail_pass(env) ==
    IF env.GMAIL_APP_PASSWORD # "" THEN env.GMAIL_APP_PASSWORD
                                   ELSE env.EMAIL_PASSWORD

StartStep_no_check(ch, env) ==
    [ch EXCEPT !.has_pass = gmail_pass(env) # "", !.pc = "loop",
               !.elapsed = 0, !.last_error = <<>>]

\* "if not gmail_pass": write the error file and exit; else enter the loop
\* with elapsed = 0 and last_error = None
StartStep(ch, env) ==
    IF gmail_pass(env) # ""
    THEN [ch EXCEPT !.has_pass = TRUE, !.pc = "loop",
                    !.elapsed = 0, !.last_error = <<>>]
    ELSE [ch EXCEPT !.msg = NoPasswordMsg, !.pc = "open_error"]

\* main() up to the loop: "if not gmail_pass" writes the error file and exits
ChildStart(a, env) ==
    /\ Running(a)
    /\ child[a].pc = "start"
    /\ child' = [child EXCEPT
                   ![a] = [StartStep(@, env) EXCEPT
                             !.env_empty = /\ env.GMAIL_APP_PASSWORD = ""
                                           /\ env.EMAIL_PASSWORD = ""]]
    /\ UNCHANGED <<code_file, error_file, cpc, attempt, max_wait_seconds, elapsed,
                   returncode, result, cpolls, opwrites, unlinked>>
    /\ UNCHANGED <<fvars, svars, tvars>>

LoopCond_inclusive(ch) == ch.elapsed <= ch.timeout

\* "while elapsed < args.timeout"
LoopCond(ch) == ch.elapsed < ch.timeout

PollStep_forget_error(ch, out) ==
    IF out.code # <<>>
    THEN [ch EXCEPT !.polls = @ + 1, !.code = out.code, !.pc = "open_code"]
    ELSE [ch EXCEPT !.polls = @ + 1, !.last_error = out.err, !.pc = "sleep"]

PollStep_sleep_first(ch, out) ==
    IF out.code # <<>>
    THEN [ch EXCEPT !.polls = @ + 1, !.code = out.code, !.sleeps = @ + 1,
                    !.elapsed = @ + poll_interval, !.pc = "open_code"]
    ELSE [ch EXCEPT !.polls = @ + 1,
                    !.last_error = IF out.err # <<>> THEN out.err ELSE @,
                    !.pc = "sleep"]

PollStep_abort_on_error(ch, out) ==
    IF out.code # <<>>
    THEN [ch EXCEPT !.polls = @ + 1, !.code = out.code, !.pc = "open_code"]
    ELSE IF out.err # <<>>
    THEN [ch EXCEPT !.polls = @ + 1, !.last_error = out.err,
                    !.msg = out.err, !.pc = "open_error"]
    ELSE [ch EXCEPT !.polls = @ + 1, !.pc = "sleep"]

\* the body of the loop after check_imap returned out: "if code" goes on to
\* write the code, "if err" records last_error, and both others sleep
PollStep(ch, out) ==
    IF out.code # <<>>
    THEN [ch EXCEPT !.polls = @ + 1, !.code = out.code, !.pc = "open_code"]
    ELSE [ch EXCEPT !.polls = @ + 1,
                    !.last_error = IF out.err # <<>> THEN out.err ELSE @,
                    !.pc = "sleep"]

\* one iteration of "while elapsed < args.timeout" up to the write of the
\* code or the sleep; out is what check_imap returned
ChildPoll(a, out) ==
    /\ Running(a)
    /\ child[a].pc = "loop"
    /\ LoopCond(child[a])
    /\ child' = [child EXCEPT
                   ![a] = [PollStep(@, out) EXCEPT !.outs = Append(@, out.err)]]
    /\ UNCHANGED <<code_file, error_file, cpc, attempt, max_wait_seconds, elapsed,
                   returncode, result, cpolls, opwrites, unlinked>>
    /\ UNCHANGED <<fvars, svars, tvars>>

\* time.sleep(poll_interval); elapsed += poll_interval
ChildSleep(a) ==
    /\ Running(a)
    /\ child[a].pc = "sleep"
    /\ child' = [child EXCEPT ![a] = [@ EXCEPT !.sleeps = @ + 1,
                                               !.elapsed = @ + poll_interval,
                                               !.pc = "loop"]]
    /\ UNCHANGED <<code_file, error_file, cpc, attempt, max_wait_seconds, elapsed,
                   returncode, result, cpolls, opwrites, unlinked>>
    /\ UNCHANGED <<fvars, svars, tvars>>

\* the loop ends: build the timeout message
ChildTimeout(a) ==
    /\ Running(a)
    /\ child[a].pc = "loop"
    /\ ~LoopCond(child[a])
    /\ child' = [child EXCEPT
                   ![a] = [@ EXCEPT !.msg = TimeoutMsg(child[a].timeout,
                                                      child[a].last_error),
                                    !.pc = "open_error"]]
    /\ UNCHANGED <<code_file, error_file, cpc, attempt, max_wait_seconds, elapsed,
                   returncode, result, cpolls, opwrites, unlinked>>
    /\ UNCHANGED <<fvars, svars, tvars>>

\* Path.write_text, first half: open(path, "w") creates or truncates the file
ChildOpen(a) ==
    /\ Running(a)
    /\ \/ /\ child[a].pc = "open_code"
          /\ code_file' = FileWith(<<>>, "fetch", a, attempt)
          /\ child' = [child EXCEPT ![a] = [@ EXCEPT !.opened = @ \cup {"code"},
                                                     !.pc = "write_code"]]
          /\ UNCHANGED error_file
       \/ /\ child[a].pc = "open_error"
          /\ error_file' = FileWith(<<>>, "fetch", a, attempt)
          /\ child' = [child EXCEPT ![a] = [@ EXCEPT !.opened = @ \cup {"error"},
                                                     !.pc = "write_error"]]
          /\ UNCHANGED code_file
    /\ UNCHANGED <<cpc, attempt, max_wait_seconds, elapsed, returncode, result,
                   cpolls, opwrites, unlinked>>
    /\ UNCHANGED <<fvars, svars, tvars>>

AfterWritePc_no_exit(file) == IF file = "code" THEN "sleep" ELSE "exit1"

\* what follows a write_text: sys.exit(0) after the code, sys.exit(1) after
\* the error message
AfterWritePc(file) == IF file = "code" THEN "exit0" ELSE "exit1"

\* Path.write_text, second half: the content reaches the file at close
ChildWrite(a) ==
    /\ Running(a)
    /\ \/ /\ child[a].pc = "write_code"
          /\ code_file' = FileWith(child[a].code, "fetch", a, attempt)
          /\ child' = [child EXCEPT ![a] = [@ EXCEPT !.wrote = @ \cup {"code"},
                                                     !.pc = AfterWritePc("code")]]
          /\ UNCHANGED error_file
       \/ /\ child[a].pc = "write_error"
          /\ error_file' = FileWith(child[a].msg, "fetch", a, attempt)
          /\ child' = [child EXCEPT ![a] = [@ EXCEPT !.wrote = @ \cup {"error"},
                                                     !.pc = AfterWritePc("error")]]
          /\ UNCHANGED code_file
    /\ UNCHANGED <<cpc, attempt, max_wait_seconds, elapsed, returncode, result,
                   cpolls, opwrites, unlinked>>
    /\ UNCHANGED <<fvars, svars, tvars>>

ExitStatus_always_1(pc) == 1

\* the status of sys.exit(0) and of sys.exit(1)
ExitStatus(pc) == IF pc = "exit0" THEN 0 ELSE 1

\* sys.exit(0) after the code file, sys.exit(1) after the error file
ChildExit(a) ==
    /\ Running(a)
    /\ child[a].pc \in {"exit0", "exit1"}
    /\ child' = [child EXCEPT
                   ![a] = [@ EXCEPT !.status = "exited",
                                    !.exitcode = <<ExitStatus(child[a].pc)>>,
                                    !.pc = "done"]]
    /\ UNCHANGED <<code_file, error_file, cpc, attempt, max_wait_seconds, elapsed,
                   returncode, result, cpolls, opwrites, unlinked>>
    /\ UNCHANGED <<fvars, svars, tvars>>

\* ---------------------------------------------------------------- operator
\* the manual override channel: the operator writes verification_code.txt
OperatorWrite(content) ==
    /\ opwrites < MaxOperatorWrites
    /\ opwrites' = opwrites + 1
    /\ code_file' = FileWith(content, "operator", 0, attempt)
    /\ UNCHANGED <<error_file, cpc, attempt, max_wait_seconds, elapsed, returncode,
                   result, cpolls, child, unlinked>>
    /\ UNCHANGED <<fvars, svars, tvars>>

\* ----------------------------------------------------------- specification
Next ==
    \/ \E mw \in Timeouts : Invoke(mw)
    \/ DeleteCode
    \/ DeleteError
    \/ Spawn
    \/ SpawnFails
    \/ Poll
    \/ Wake
    \/ Reap
    \/ TimeOut
    \/ \E a \in Attempts, env \in Environments : ChildStart(a, env)
    \/ \E a \in Attempts, out \in PollOutcomes : ChildPoll(a, out)
    \/ \E a \in Attempts : ChildSleep(a)
    \/ \E a \in Attempts : ChildTimeout(a)
    \/ \E a \in Attempts : ChildOpen(a)
    \/ \E a \in Attempts : ChildWrite(a)
    \/ \E a \in Attempts : ChildExit(a)
    \/ \E content \in OperatorContents : OperatorWrite(content)

Spec == Init /\ [][Next]_vars

\* the Fetch Process ends without a sentinel file: an exception main() does
\* not catch (a write that fails, a missing module) or a signal from outside
ChildDies(a) ==
    /\ Running(a)
    /\ child[a].opened = {}
    /\ child' = [child EXCEPT ![a] = [NoChild EXCEPT !.status = "exited",
                                                     !.exitcode = <<1>>,
                                                     !.pc = "done"]]
    /\ UNCHANGED <<code_file, error_file, cpc, attempt, max_wait_seconds, elapsed,
                   returncode, result, cpolls, opwrites, unlinked>>
    /\ UNCHANGED <<fvars, svars, tvars>>

\* a step of _check_email_for_code once it is called
CoordinatorStep ==
    DeleteCode \/ DeleteError \/ Spawn \/ SpawnFails \/ Poll \/ Wake \/ TimeOut

\* the hand-off with a Fetch Process that may die at any point or stop for
\* ever; the coordinator itself keeps running
AnyChildNext == Next \/ \E a \in Attempts : ChildDies(a)

AnyChildSpec == Init /\ [][AnyChildNext]_vars /\ WF_vars(CoordinatorStep)

\* a step of the Fetch Process of invocation a
FetchStep(a) ==
    \/ \E env \in Environments : ChildStart(a, env)
    \/ \E out \in PollOutcomes : ChildPoll(a, out)
    \/ ChildSleep(a)
    \/ ChildTimeout(a)
    \/ ChildOpen(a)
    \/ ChildWrite(a)
    \/ ChildExit(a)

\* a Fetch Process that is not killed goes on running: the operating system
\* schedules it, every sleep ends and every check_imap call returns; nothing
\* is assumed of the coordinator and the operator
FairSpec == Spec /\ \A a \in Attempts : WF_vars(FetchStep(a))

\* ------------------------------------------------------------------ claims
Polling == cpc \in {"spawn", "poll", "sleep"}

\* the step with which the current invocation returns the given result
Returns(kind) == cpc # "done" /\ cpc' = "done" /\ result'.kind = kind

\* C1: the coordinator has deleted both files before it spawns the child,
\* so from the spawn to the return every sentinel file present was written
\* during the current invocation, and the code file a success is read from
\* is such a file, never a leftover of an earlier invocation.
C1_FreshFiles ==
    /\ [](Polling =>
            /\ code_file.exists => code_file.attempt = attempt
            /\ error_file.exists => error_file.attempt = attempt)
    /\ [][Returns("success") =>
            code_file.exists /\ code_file.attempt = attempt]_vars

\* C1 witness: an invocation that found and deleted an old code file has
\* returned a code
C1_Witness ==
    /\ cpc = "done"
    /\ result.kind = "success"
    /\ "code" \in unlinked
    /\ attempt = 2

\* C2: a success result is "Verification code: " followed by the stripped,
\* non-empty content of the code file read at that poll; when the file was
\* written by the Fetch Process this is the code its mailbox poll returned.
C2_SuccessText ==
    [][Returns("success") =>
         /\ cpc = "poll"
         /\ result'.success
         /\ code_file.exists
         /\ strip(code_file.content) # <<>>
         /\ Head(strip(code_file.content)) \notin WS
         /\ strip(code_file.content)[Len(strip(code_file.content))] \notin WS
         /\ result'.text = <<"Verification code: ">> \o strip(code_file.content)
         /\ code_file.writer = "fetch" =>
              /\ child[code_file.by].code \in Codes
              /\ result'.text =
                   <<"Verification code: ">> \o child[code_file.by].code]_vars

\* C2 witness: a success that carries a code of the Fetch Process
C2_Witness ==
    /\ cpc = "done"
    /\ result.success
    /\ code_file.writer = "fetch"
    /\ result.text = <<"Verification code: ", "A", "B", "1", "2">>

\* C3: the timeout error is returned only when the budget has elapsed and
\* neither sentinel file is present at the return; its text names the path
\* of the code file.
C3_TimeoutOnlyWithoutSentinels ==
    [][Returns("timeout") =>
         /\ ~(elapsed < max_wait_seconds)
         /\ ~code_file.exists
         /\ ~error_file.exists
         /\ \E i \in 1..Len(result'.text) : result'.text[i] = CodeFilePath]_vars

\* C4: the content of the error file is returned only at a poll where the
\* error file exists and the child has exited; a poll that finds the error
\* file while the child is running returns no child error and, unless it
\* returns a code, goes to sleep for the next poll.
C4_ErrorOnlyAfterExit ==
    [][/\ Returns("child_error") =>
            /\ cpc = "poll"
            /\ error_file.exists
            /\ child[attempt].status = "exited"
            /\ result'.text =
                 <<"Email check failed: ">> \o strip(error_file.content)
       /\ (cpc = "poll" /\ cpolls' = cpolls + 1 /\ error_file.exists
             /\ child[attempt].status = "running") =>
            \/ Returns("success")
            \/ cpc' = "sleep" /\ result' = result]_vars

\* C4 witness: the coordinator has returned the error of a child that
\* timed out
C4_Witness ==
    /\ cpc = "done"
    /\ result.kind = "child_error"
    /\ child[attempt].status = "exited"
    /\ child[attempt].has_pass

\* C5: when an invocation that spawned a child has returned, that child is
\* not running: it exited by itself or was killed.
C5_ChildGoneAtReturn ==
    (cpc = "done" /\ result.kind \in {"success", "child_error", "timeout"}) =>
        child[attempt].status \in {"exited", "killed"}

\* C5 witness: a success return that had to kill the running child
C5_Witness ==
    /\ cpc = "done"
    /\ result.kind = "success"
    /\ child[attempt].status = "killed"

\* C6 as claimed: from the deletion of the old files to the return at most
\* one of the two sentinel files exists.
C6_AtMostOneSentinel ==
    Polling => ~(code_file.exists /\ error_file.exists)

\* C6 amended: from the deletion of the old files to the return the two
\* files exist together only when the code file is the operator's; the
\* Fetch Process has written at most one of them.
C6_AtMostOneFromFetch ==
    Polling =>
        /\ ~(code_file.exists /\ error_file.exists /\ code_file.writer = "fetch")
        /\ error_file.exists => error_file.writer = "fetch"
        /\ \A a \in Attempts : ~({"code", "error"} \subseteq child[a].opened)

\* C6 witness: the error file of the child and a code file of the operator
\* exist together while the coordinator is polling
C6_Witness ==
    /\ Polling
    /\ code_file.exists
    /\ code_file.writer = "operator"
    /\ error_file.exists
    /\ error_file.content # <<>>

\* C7: a run of the Fetch Process that has exited wrote exactly one sentinel
\* file, exit status 0 exactly with the code file and 1 exactly with the
\* error file; the code file then got the bare code of the poll; no run
\* writes both files.
C7_OneSentinelPerRun ==
    /\ [](\A a \in Attempts :
            /\ ~({"code", "error"} \subseteq child[a].opened)
            /\ child[a].status = "exited" =>
                 /\ Cardinality(child[a].wrote) = 1
                 /\ child[a].opened = child[a].wrote
                 /\ child[a].exitcode \in {<<0>>, <<1>>}
                 /\ child[a].exitcode = <<0>> <=> child[a].wrote = {"code"}
                 /\ child[a].exitcode = <<1>> <=> child[a].wrote = {"error"})
    /\ [][\A a \in Attempts :
            ("code" \in child'[a].wrote /\ "code" \notin child[a].wrote) =>
                /\ child[a].code \in Codes
                /\ code_file'.content = child[a].code
                /\ code_file'.by = a]_vars

\* C7 witness: a run that wrote the code file has exited with status 0
C7_Witness ==
    \E a \in Attempts :
        /\ child[a].status = "exited"
        /\ child[a].exitcode = <<0>>
        /\ child[a].wrote = {"code"}

\* C8: a code returned by the k-th poll is written after exactly k-1
\* sleeps, and the run that wrote it exits with status 0; once a run has
\* written a sentinel file it makes no poll, no sleep and no file write.
C8_PromptDelivery ==
    /\ [](\A a \in Attempts :
            /\ child[a].code # <<>> =>
                 /\ child[a].sleeps = child[a].polls - 1
                 /\ child[a].elapsed = poll_interval * (child[a].polls - 1)
                 /\ child[a].pc \in {"open_code", "write_code", "exit0", "done"}
                 /\ child[a].status = "exited" =>
                      child[a].exitcode = <<0>> /\ child[a].wrote = {"code"}
            /\ child[a].wrote # {} => child[a].pc \in {"exit0", "exit1", "done"})
    /\ [][\A a \in Attempts :
            (child[a].wrote # {} /\ child'[a] # GoneChild) =>
                /\ child'[a].polls = child[a].polls
                /\ child'[a].sleeps = child[a].sleeps
                /\ child'[a].opened = child[a].opened
                /\ child'[a].wrote = child[a].wrote
                /\ code_file'.by = a => code_file' = code_file
                /\ error_file'.by = a => error_file' = error_file]_vars

\* C8 witness: the code of the second poll was delivered after one sleep
C8_Witness ==
    \E a \in Attempts :
        /\ child[a].status = "exited"
        /\ child[a].code # <<>>
        /\ child[a].polls = 2
        /\ child[a].sleeps = 1
        /\ child[a].timeout > poll_interval

\* ceil(timeout / 5), and 0 for timeout <= 0
CeilPolls(timeout) ==
    IF timeout <= 0 THEN 0
    ELSE (timeout + poll_interval - 1) \div poll_interval

\* the run of a has left the loop by the timeout
TimedOut(a) ==
    /\ child[a].has_pass
    /\ child[a].code = <<>>
    /\ child[a].pc \in {"open_error", "write_error", "exit1", "done"}

\* C9: a run in which no poll returns a code makes exactly ceil(timeout/5)
\* polls (none for timeout <= 0), then writes the timeout message to the
\* error file and exits with status 1 without creating the code file; and
\* every run ends.
C9_TimeoutAfterCeilPolls ==
    /\ [](\A a \in Attempts :
            /\ (child[a].has_pass /\ child[a].code = <<>>) =>
                 /\ child[a].polls <= CeilPolls(child[a].timeout)
                 /\ "code" \notin child[a].opened
            /\ TimedOut(a) =>
                 /\ child[a].polls = CeilPolls(child[a].timeout)
                 /\ child[a].sleeps = child[a].polls
                 /\ child[a].msg[1] = "No verification code found after "
                 /\ child[a].msg[2] = ToString(child[a].timeout)
                 /\ child[a].status = "exited" =>
                      /\ child[a].exitcode = <<1>>
                      /\ child[a].wrote = {"error"})
    /\ [][\A a \in Attempts :
            (TimedOut(a) /\ "error" \in child'[a].wrote
               /\ "error" \notin child[a].wrote) =>
                error_file'.content = child[a].msg]_vars
    /\ \A a \in Attempts :
            (child[a].status = "running") ~> (child[a].status # "running")

\* C9 witness: a run whose timeout is no multiple of 5 (6 seconds: two
\* polls) has timed out after polls that all found no message
C9_Witness ==
    \E a \in Attempts :
        /\ TimedOut(a)
        /\ child[a].status = "exited"
        /\ child[a].timeout % poll_interval # 0
        /\ child[a].polls >= 2
        /\ child[a].last_error = <<>>

\* C10: a poll that returns no code, an error included, leaves the run
\* alive and asleep for the next poll; the error file of a run with a
\* password is written only once elapsed >= timeout; and a run that got an
\* error and later a code ends with the code file and status 0.
C10_ErrorsAreNotTerminal ==
    /\ [][\A a \in Attempts :
            (child'[a].polls = child[a].polls + 1 /\ child'[a].code = <<>>) =>
                /\ child'[a].status = "running"
                /\ child'[a].pc = "sleep"
                /\ child'[a].opened = child[a].opened
                /\ child'[a].elapsed < child'[a].timeout]_vars
    /\ [](\A a \in Attempts :
            /\ (child[a].has_pass /\ "error" \in child[a].opened) =>
                 /\ ~(child[a].elapsed < child[a].timeout)
                 /\ child[a].code = <<>>
            /\ (child[a].last_error # <<>> /\ child[a].code # <<>>
                  /\ child[a].status = "exited") =>
                 /\ child[a].exitcode = <<0>>
                 /\ child[a].wrote = {"code"})

\* C10 witness: a run whose first poll returned an error has delivered the
\* code of its second poll
C10_Witness ==
    \E a \in Attempts :
        /\ child[a].status = "exited"
        /\ child[a].exitcode = <<0>>
        /\ child[a].last_error # <<>>
        /\ child[a].polls = 2

\* the err of the last poll in outs that returned an error, <<>> if none did
RECURSIVE MostRecentError(_)
MostRecentError(outs) ==
    IF outs = <<>> THEN <<>>
    ELSE IF outs[Len(outs)] # <<>> THEN outs[Len(outs)]
    ELSE MostRecentError(SubSeq(outs, 1, Len(outs) - 1))

\* C11: the timeout message ends with " Last error: " and the error of the
\* most recent poll of the run that returned one, also when later polls
\* returned neither message nor error; it is the bare timeout sentence
\* exactly when no poll of the run returned an error.
C11_LastErrorInMessage ==
    /\ [](\A a \in Attempts :
            TimedOut(a) =>
              LET E == MostRecentError(child[a].outs)
                  base == <<"No verification code found after ",
                            ToString(child[a].timeout), "s.">>
              IN /\ Len(child[a].outs) = child[a].polls
                 /\ E # <<>> =>
                      child[a].msg = base \o <<" Last error: ">> \o E
                 /\ E = <<>> => child[a].msg = base
                 /\ (\E i \in 1..Len(child[a].msg) :
                        child[a].msg[i] = " Last error: ") <=> E # <<>>)
    /\ [][\A a \in Attempts :
            (TimedOut(a) /\ "error" \in child'[a].wrote
               /\ "error" \notin child[a].wrote) =>
                /\ error_file'.content = child[a].msg
                /\ error_file'.by = a]_vars

\* C11 witness: a run whose first poll returned an error and whose second
\* poll found no message has written the timeout message with that error
C11_Witness ==
    \E a \in Attempts :
        /\ TimedOut(a)
        /\ "error" \in child[a].wrote
        /\ Len(child[a].outs) = 2
        /\ child[a].outs[1] # <<>>
        /\ child[a].outs[2] = <<>>
        /\ error_file.by = a
        /\ error_file.content =
             <<"No verification code found after ", ToString(child[a].timeout),
               "s.", " Last error: ">> \o child[a].outs[1]

\* the run of a has started without any app password in its environment
NoPassword(a) ==
    /\ child[a].status \in {"running", "exited", "killed"}
    /\ child[a].pc # "start"
    /\ child[a].env_empty

\* C12: with neither GMAIL_APP_PASSWORD nor EMAIL_PASSWORD set the run makes
\* no mailbox poll and no sleep, whatever its timeout: it writes the
\* missing-password message to the error file and exits with status 1.
C12_NoPasswordNoPoll ==
    /\ [](\A a \in Attempts :
            NoPassword(a) =>
                /\ child[a].polls = 0
                /\ child[a].sleeps = 0
                /\ child[a].outs = <<>>
                /\ child[a].msg = NoPasswordMsg
                /\ child[a].pc \in {"open_error", "write_error", "exit1", "done"}
                /\ "code" \notin child[a].opened
                /\ child[a].status = "exited" =>
                     /\ child[a].exitcode = <<1>>
                     /\ child[a].wrote = {"error"})
    /\ [][\A a \in Attempts :
            (NoPassword(a) /\ "error" \in child'[a].wrote
               /\ "error" \notin child[a].wrote) =>
                /\ error_file'.content = NoPasswordMsg
                /\ error_file'.by = a]_vars

\* C12 witness: a run with a positive timeout and no password has exited
\* with status 1 after writing the error file
C12_Witness ==
    \E a \in Attempts :
        /\ NoPassword(a)
        /\ child[a].status = "exited"
        /\ child[a].timeout > 0
        /\ child[a].wrote = {"error"}

\* the coordinator's own steps are the steps that change one of its variables
CoordinatorVars ==
    <<cpc, attempt, max_wait_seconds, elapsed, returncode, result, cpolls,
      unlinked>>

\* C13: a non-empty code that the operator has written into the code file
\* while the coordinator was waiting (a positive budget), and that is still
\* there when the invocation returns, is returned as the success result of
\* that code, whenever in the wait it was written.
C13_ManualCodeReturned ==
    [][(/\ cpc \in {"poll", "sleep"}
        /\ max_wait_seconds > 0
        /\ cpc' = "done"
        /\ code_file.exists
        /\ code_file.writer = "operator"
        /\ code_file.attempt = attempt
        /\ strip(code_file.content) # <<>>) =>
           result' = SuccessResult(strip(code_file.content))]_vars

\* C14: no step of the coordinator puts content into a sentinel file: it
\* leaves both files as they are, except that its first two steps delete
\* the code file and the error file; what a file holds was written by the
\* Fetch Process or by the operator.
C14_CoordinatorOnlyDeletes ==
    /\ [][CoordinatorVars' # CoordinatorVars =>
            /\ \/ code_file' = code_file
               \/ cpc = "del_code" /\ code_file' = NoFile
            /\ \/ error_file' = error_file
               \/ cpc = "del_error" /\ error_file' = NoFile
            /\ Polling => code_file' = code_file /\ error_file' = error_file]_vars
    /\ [](/\ code_file.exists =>
               /\ code_file.writer \in {"fetch", "operator"}
               /\ code_file.content \in Codes \cup OperatorContents \cup {<<>>}
          /\ error_file.exists =>
               /\ error_file.writer = "fetch"
               /\ error_file.by \in Attempts
               /\ \/ error_file.content \in {<<>>, NoPasswordMsg}
                  \/ error_file.content[1] = "No verification code found after ")

\* C14 witness: the invocation has deleted both files of an earlier one and
\* is polling
C14_Witness ==
    /\ unlinked = {"code", "error"}
    /\ cpc = "sleep"
    /\ ~code_file.exists
    /\ ~error_file.exists

\* ------------------------------------------------- extract_code, check_imap
\* Texts are sequences of characters.  The patterns of extract_code are
\* sequences of items that Match runs as re.search does: leftmost start,
\* alternatives in their order, greedy repetition with backtracking.
UpperLetters ==
    <<"A", "B", "C", "D", "E", "F", "G", "H", "I", "J", "K", "L", "M", "N",
      "O", "P", "Q", "R", "S", "T", "U", "V", "W", "X", "Y", "Z">>

LowerLetters ==
    <<"a", "b", "c", "d", "e", "f", "g", "h", "i", "j", "k", "l", "m", "n",
      "o", "p", "q", "r", "s", "t", "u", "v", "w", "x", "y", "z">>

Digits ==
    {"0", "1", "2", "3", "4", "5", "6", "7", "8", "9"}

Range(f) == {f[i] : i \in DOMAIN f}

\* [A-Za-z0-9], which is also [A-Z0-9] under re.IGNORECASE
Alnum == Range(UpperLetters) \cup Range(LowerLetters) \cup Digits

\* the lower case of a character, for re.IGNORECASE
LowerOf ==
    [c \in Range(UpperLetters) |->
        LowerLetters[CHOOSE i \in DOMAIN UpperLetters : UpperLetters[i] = c]]

Lower(c) == IF c \in DOMAIN LowerOf THEN LowerOf[c] ELSE c

\* pattern items
Alt(words) == [k |-> "alt", words |-> words, set |-> {}, min |-> 0, max |-> 0]

Rep(set, min, max) ==
    [k |-> "rep", words |-> <<>>, set |-> set, min |-> min, max |-> max]

Group(set, min, max) ==
    [k |-> "group", words |-> <<>>, set |-> set, min |-> min, max |-> max]

\* (?:^|\n)
StartOrNewline ==
    [k |-> "bol", words |-> <<>>, set |-> {}, min |-> 0, max |-> 0]

\* (?:\n|$)
NewlineOrEnd ==
    [k |-> "eol", words |-> <<>>, set |-> {}, min |-> 0, max |-> 0]

\* no upper limit of a repetition (* and +)
Unlimited == 1000

NoMatch == [ok |-> FALSE, cap |-> <<>>]

\* the literal w is at position pos of text, letter case ignored
WordAt(w, text, pos) ==
    /\ pos + Len(w) - 1 <= Len(text)
    /\ \A i \in 1..Len(w) : Lower(text[pos + i - 1]) = w[i]

\* the number of characters of set from position pos on, at most max
RECURSIVE RunLength(_, _, _, _)
RunLength(set, text, pos, max) ==
    IF max > 0 /\ pos <= Len(text) /\ text[pos] \in set
    THEN 1 + RunLength(set, text, pos + 1, max - 1)
    ELSE 0

\* items k.. of the pattern match text from position pos on; cap is what
\* the group took
RECURSIVE MatchFrom(_, _, _, _), TryAlt(_, _, _, _, _), TryRep(_, _, _, _, _)
MatchFrom(pattern, k, text, pos) ==
    IF k > Len(pattern) THEN [ok |-> TRUE, cap |-> <<>>]
    ELSE LET item == pattern[k] IN
         CASE item.k = "alt" -> TryAlt(pattern, k, text, pos, 1)
           [] item.k \in {"rep", "group"} ->
                TryRep(pattern, k, text, pos,
                       RunLength(item.set, text, pos, item.max))
           [] item.k = "bol" ->
                LET atStart == IF pos = 1 THEN MatchFrom(pattern, k + 1, text, pos)
                                          ELSE NoMatch
                IN IF atStart.ok THEN atStart
                   ELSE IF pos <= Len(text) /\ text[pos] = "\n"
                   THEN MatchFrom(pattern, k + 1, text, pos + 1)
                   ELSE NoMatch
           [] item.k = "eol" ->
                LET atNewline ==
                        IF pos <= Len(text) /\ text[pos] = "\n"
                        THEN MatchFrom(pattern, k + 1, text, pos + 1)
                        ELSE NoMatch
                IN IF atNewline.ok THEN atNewline
                   ELSE IF \/ pos = Len(text) + 1
                           \/ pos = Len(text) /\ text[pos] = "\n"
                   THEN MatchFrom(pattern, k + 1, text, pos)
                   ELSE NoMatch

\* the alternatives j.. of item k, in their order
TryAlt(pattern, k, text, pos, j) ==
    IF j > Len(pattern[k].words) THEN NoMatch
    ELSE LET w == pattern[k].words[j]
             rest == IF WordAt(w, text, pos)
                     THEN MatchFrom(pattern, k + 1, text, pos + Len(w))
                     ELSE NoMatch
         IN IF rest.ok THEN rest ELSE TryAlt(pattern, k, text, pos, j + 1)

\* item k repeated n times, then n - 1 times, ... down to its minimum
TryRep(pattern, k, text, pos, n) ==
    IF n < pattern[k].min THEN NoMatch
    ELSE LET rest == MatchFrom(pattern, k + 1, text, pos + n)
         IN IF rest.ok
            THEN IF pattern[k].k = "group"
                 THEN [ok |-> TRUE, cap |-> SubSeq(text, pos, pos + n - 1)]
                 ELSE rest
            ELSE TryRep(pattern, k, text, pos, n - 1)

\* re.search(pattern, text): the match at the leftmost position that has one
RECURSIVE SearchFrom(_, _, _)
SearchFrom(pattern, text, pos) ==
    IF pos > Len(text) + 1 THEN NoMatch
    ELSE LET m == MatchFrom(pattern, 1, text, pos)
         IN IF m.ok THEN m ELSE SearchFrom(pattern, text, pos + 1)

Search(pattern, text) == SearchFrom(pattern, text, 1)

\* \s and [:\s]
Space == WS

ColonSpace == {":"} \cup WS

\* (?:verification|confirm|security|auth)\s*(?:code|number|pin)[:\s]+(\d{4,8})
Pattern1 ==
    <<Alt(<<<<"v", "e", "r", "i", "f", "i", "c", "a", "t", "i", "o", "n">>,
           <<"c", "o", "n", "f", "i", "r", "m">>,
           <<"s", "e", "c", "u", "r", "i", "t", "y">>,
           <<"a", "u", "t", "h">>>>),
      Rep(Space, 0, Unlimited),
      Alt(<<<<"c", "o", "d", "e">>, <<"n", "u", "m", "b", "e", "r">>, <<"p", "i", "n">>>>),
      Rep(ColonSpace, 1, Unlimited),
      Group(Digits, 4, 8)>>

\* (?:your|the|enter)\s+(?:code|pin|otp)[:\s]+(\d{4,8})
Pattern2 ==
    <<Alt(<<<<"y", "o", "u", "r">>, <<"t", "h", "e">>, <<"e", "n", "t", "e", "r">>>>),
      Rep(Space, 1, Unlimited),
      Alt(<<<<"c", "o", "d", "e">>, <<"p", "i", "n">>, <<"o", "t", "p">>>>),
      Rep(ColonSpace, 1, Unlimited),
      Group(Digits, 4, 8)>>

\* (\d{4,8})\s+is\s+your\s+(?:verification|confirm|security)
Pattern3 ==
    <<Group(Digits, 4, 8),
      Rep(Space, 1, Unlimited),
      Alt(<<<<"i", "s">>>>),
      Rep(Space, 1, Unlimited),
      Alt(<<<<"y", "o", "u", "r">>>>),
      Rep(Space, 1, Unlimited),
      Alt(<<<<"v", "e", "r", "i", "f", "i", "c", "a", "t", "i", "o", "n">>,
           <<"c", "o", "n", "f", "i", "r", "m">>,
           <<"s", "e", "c", "u", "r", "i", "t", "y">>>>)>>

\* (?:^|\n)\s*(\d{4,8})\s*(?:\n|$)
Pattern4 ==
    <<StartOrNewline,
      Rep(Space, 0, Unlimited),
      Group(Digits, 4, 8),
      Rep(Space, 0, Unlimited),
      NewlineOrEnd>>

Pattern5_long ==
    <<Alt(<<<<"c", "o", "d", "e">>, <<"p", "i", "n">>, <<"o", "t", "p">>>>),
      Rep(ColonSpace, 1, Unlimited),
      Group(Alnum, 4, 12)>>

\* (?:code|pin|otp)[:\s]+([A-Z0-9]{4,10})
Pattern5 ==
    <<Alt(<<<<"c", "o", "d", "e">>, <<"p", "i", "n">>, <<"o", "t", "p">>>>),
      Rep(ColonSpace, 1, Unlimited),
      Group(Alnum, 4, 10)>>

\* (?:^|\n)\s*([A-Za-z0-9]{8})\s*(?:\n|$)
Pattern6 ==
    <<StartOrNewline,
      Rep(Space, 0, Unlimited),
      Group(Alnum, 8, 8),
      Rep(Space, 0, Unlimited),
      NewlineOrEnd>>

Patterns == <<Pattern1, Pattern2, Pattern3, Pattern4, Pattern5, Pattern6>>

\* "m = re.search(...); if m: return m.group(1)" for the patterns k.. of a
\* list; <<>> is None
RECURSIVE FirstMatch(_, _, _)
FirstMatch(patterns, k, text) ==
    IF k > Len(patterns) THEN <<>>
    ELSE LET m == Search(patterns[k], text)
         IN IF m.ok THEN m.cap ELSE FirstMatch(patterns, k + 1, text)

extract_code_digit_line_first(text) ==
    FirstMatch(<<Pattern4, Pattern1, Pattern2, Pattern3, Pattern5, Pattern6>>,
               1, text)

extract_code(text) == FirstMatch(Patterns, 1, text)

\* the texts extract_code is given: up to MaxFragments of these pieces in a
\* row (a digit line, the phrases of rules 1, 2, 3 and 5, runs of digits and
\* of letters and digits of several lengths, a line break, a letter)
MaxFragments == 3

Fragments ==
    { <<"1", "2", "3", "4", "\n">>,
      <<"y", "o", "u", "r", " ", "c", "o", "d", "e", ":", " ">>,
      <<"5", "6", "7", "8">>,
      <<"v", "e", "r", "i", "f", "i", "c", "a", "t", "i", "o", "n", " ", "c", "o", "d", "e", ":", " ">>,
      <<" ", "i", "s", " ", "y", "o", "u", "r", " ", "s", "e", "c", "u", "r", "i", "t", "y">>,
      <<"p", "i", "n", " ">>,
      <<"A", "B", "1", "2", "c", "d", "3", "4">>,
      <<"\n">>,
      <<"1", "2", "3", "4", "5", "6", "7", "8", "9">>,
      <<"x">> }

RECURSIVE TextsOf(_)
TextsOf(n) ==
    IF n = 0 THEN {<<>>}
    ELSE LET shorter == TextsOf(n - 1)
         IN shorter \cup {t \o f : t \in shorter, f \in Fragments}

Texts == TextsOf(MaxFragments)

\* payload.decode("utf-8", errors="replace"): a byte that is not UTF-8
\* becomes the replacement character
Decode(payload) ==
    [i \in DOMAIN payload |->
        IF payload[i] = "0xFF" THEN "U+FFFD" ELSE payload[i]]

\* "for part in msg.walk()": every text/plain part is appended, a text/html
\* part is appended while body is still empty
RECURSIVE WalkBody(_, _, _)
WalkBody(parts, k, body) ==
    IF k > Len(parts) THEN body
    ELSE LET part == parts[k]
         IN IF part.ct = "text/plain"
            THEN WalkBody(parts, k + 1, body \o Decode(part.payload))
            ELSE IF part.ct = "text/html" /\ body = <<>>
            THEN WalkBody(parts, k + 1, body \o Decode(part.payload))
            ELSE WalkBody(parts, k + 1, body)

\* "Extract body text"
Body(msg) ==
    IF msg.is_multipart THEN WalkBody(msg.parts, 1, <<>>)
    ELSE Decode(msg.parts[1].payload)

\* f"{subject}\n{body}"
Combined(msg) == msg.subject \o <<"\n">> \o Body(msg)

Returned(code, error) ==
    [NoReturn EXCEPT !.returned = TRUE, !.code = code, !.error = error]

\* an exception leaves the function
Raised(fault) == [NoReturn EXCEPT !.returned = TRUE, !.raised = fault.kind]

\* the except clauses of check_imap without "except Exception"
Handle_imap_only(fault) ==
    IF fault.kind = "IMAP4.error"
    THEN Returned(<<>>, <<"IMAP error: ">> \o fault.text)
    ELSE Raised(fault)

\* "except imaplib.IMAP4.error as e" and "except Exception as e"
Handle(fault) ==
    IF fault.kind = "IMAP4.error"
    THEN Returned(<<>>, <<"IMAP error: ">> \o fault.text)
    ELSE Returned(<<>>, <<"Error: ">> \o fault.text)

NoEmailsYet_error == Returned(<<>>, <<"No emails yet">>)

\* "return None, None  # No emails yet, not an error"
NoEmailsYet == Returned(<<>>, <<>>)

NoCodeError_none(subject) == <<>>

NoCodeError(subject) ==
    <<"Email found but no code extracted. Subject: ">> \o subject

\* "if code: return code, None" and its else
AfterExtract(msg, code) ==
    [(IF code # <<>> THEN Returned(code, <<>>)
                     ELSE Returned(<<>>, NoCodeError(msg.subject)))
       EXCEPT !.extracted = TRUE, !.combined = Combined(msg)]

\* "latest_id = msg_ids[0].split()[-1]"
latest_id(msg_ids) == msg_ids[Len(msg_ids)]

\* one IMAP check of the mailbox mb
check_imap(mb) ==
    IF mb.fault.stage \in {"connect", "login", "select", "search"}
    THEN Handle(mb.fault)
    ELSE IF mb.search_status # "OK" \/ mb.msg_ids = <<>>
    THEN IF mb.fault.stage = "logout" THEN Handle(mb.fault) ELSE NoEmailsYet
    ELSE IF mb.fault.stage \in {"fetch", "logout"}
    THEN Handle(mb.fault)
    ELSE IF mb.fetch_status # "OK"
    THEN Returned(<<>>, <<>>)
    ELSE IF mb.fault.stage = "parse"
    THEN Handle(mb.fault)
    ELSE LET msg == mb.messages[latest_id(mb.msg_ids)]
         IN AfterExtract(msg, extract_code(Combined(msg)))

\* the messages of the mailbox: a subject, and either one payload or up to
\* MaxParts parts in the order msg.walk() visits them
MaxParts == 2

Subjects == { <<>>,
              <<"V", "e", "r", "i", "f", "y">>,
              <<"C", "o", "d", "e", " ", "4", "8", "2", "9", "1", "3">> }

ContentTypes == {"text/plain", "text/html", "image/png"}

\* payload bytes: a code in plain text, another code in HTML, no code and a
\* byte that is not UTF-8, nothing
Payloads ==
    { <<"y", "o", "u", "r", " ", "c", "o", "d", "e", ":", " ", "5", "6", "7", "8">>,
      <<"<", "p", ">", "y", "o", "u", "r", " ", "c", "o", "d", "e", ":", " ", "1", "2", "3", "4", "<", "/", "p", ">">>,
      <<"h", "i", " ", "0xFF">>,
      <<>> }

Parts == [ct : ContentTypes, payload : Payloads]

RECURSIVE PartsUpTo(_)
PartsUpTo(n) ==
    IF n = 0 THEN {<<>>}
    ELSE LET shorter == PartsUpTo(n - 1)
         IN shorter \cup {Append(ps, p) : ps \in shorter, p \in Parts}

Messages ==
    [subject : Subjects, is_multipart : {TRUE}, parts : PartsUpTo(MaxParts)]
      \cup [subject : Subjects, is_multipart : {FALSE},
            parts : {<<p>> : p \in [ct : {"text/plain", "text/html"},
                                    payload : Payloads]}]

\* an unseen message that arrived before the latest one
OldMessage ==
    [subject |-> <<"O", "l", "d">>, is_multipart |-> FALSE,
     parts |-> <<[ct |-> "text/plain",
                  payload |-> <<"y", "o", "u", "r", " ", "c", "o", "d", "e", ":", " ", "9", "9", "9", "9">>]>>]

\* what can fail: the connection, the login (authentication), SELECT, SEARCH,
\* LOGOUT and FETCH raise imaplib.IMAP4.error or another exception (socket,
\* TLS); a FETCH answer without the message makes msg_data[0][1] raise
Faults ==
    [stage : {"connect", "login", "select", "search", "logout", "fetch"},
     kind : {"IMAP4.error", "Exception"}, text : {<<"e">>}]
      \cup {[stage |-> "parse", kind |-> "Exception", text |-> <<"e">>]}

\* the mailboxes of one check: with a failing call only what the code reads
\* before it differs, and an older unseen message comes with the latest
\* messages of one payload
Mailboxes ==
    {[NoMailbox EXCEPT !.fault = f] :
        f \in {g \in Faults : g.stage \in {"connect", "login", "select", "search"}}}
      \cup {[NoMailbox EXCEPT !.search_status = st, !.fault = f] :
              st \in {"OK", "NO"},
              f \in {NoFault} \cup {g \in Faults : g.stage = "logout"}}
      \cup {[NoMailbox EXCEPT !.msg_ids = <<1>>, !.messages = <<OldMessage>>,
                               !.search_status = st, !.fetch_status = ft,
                               !.fault = f] :
              st \in {"OK", "NO"}, ft \in {"OK", "NO"},
              f \in {NoFault}
                      \cup {g \in Faults : g.stage \in {"logout", "fetch", "parse"}}}
      \cup {[NoMailbox EXCEPT !.msg_ids = <<1>>, !.messages = <<m>>] :
              m \in Messages}
      \cup {[NoMailbox EXCEPT !.msg_ids = <<1, 2>>,
                               !.messages = <<OldMessage, m>>] :
              m \in {n \in Messages : ~n.is_multipart}}

\* a Fetch Process in its loop, before its first poll ...
LoopChild ==
    StartStep(NewChild(poll_interval * MaxPolls - 4),
              [GMAIL_APP_PASSWORD |-> "pw", EMAIL_PASSWORD |-> ""])

\* ... and after a poll that returned the error e and the sleep
LoopChildAfter(e) ==
    [PollStep(LoopChild, [code |-> <<>>, err |-> e])
       EXCEPT !.outs = <<e>>, !.sleeps = 1, !.elapsed = poll_interval,
              !.pc = "loop"]

LoopChildren == {LoopChild} \cup {LoopChildAfter(e) : e \in Errors}

\* the single calls
FnCalls ==
    {[NoCall EXCEPT !.fn = "extract_code", !.text = t] : t \in Texts}
      \cup {[NoCall EXCEPT !.fn = "check_imap", !.mailbox = mb, !.ch = ch] :
              mb \in Mailboxes, ch \in LoopChildren}

FnInit ==
    /\ IdleHandOff
    /\ fn_in \in FnCalls
    /\ fn_out = NoReturn
    /\ session = NoSession
    /\ NoSessionFiles
    /\ NoDatabase

\* the variables of the hand-off
hvars ==
    <<code_file, error_file, cpc, attempt, max_wait_seconds, elapsed,
      returncode, result, cpolls, child, opwrites, unlinked>>

\* extract_code(text) returns
ExtractCode ==
    /\ fn_in.fn = "extract_code"
    /\ ~fn_out.returned
    /\ fn_out' = Returned(extract_code(fn_in.text), <<>>)
    /\ UNCHANGED <<fn_in, hvars, svars, tvars>>

\* a call that remembers that it has handed out a code
SecondCall_remembering(text, first) ==
    IF first # <<>> THEN <<>> ELSE extract_code(text)

\* extract_code reads its argument only: a later call sees nothing of an
\* earlier one
SecondCall(text, first) == extract_code(text)

\* extract_code(text) is called again and returns
ExtractCodeAgain ==
    /\ fn_in.fn = "extract_code"
    /\ fn_out.returned
    /\ ~fn_out.twice
    /\ fn_out' = [fn_out EXCEPT !.twice = TRUE,
                                !.second = SecondCall(fn_in.text, fn_out.code)]
    /\ UNCHANGED <<fn_in, hvars, svars, tvars>>

\* check_imap(...) returns or raises
CheckImap ==
    /\ fn_in.fn = "check_imap"
    /\ ~fn_out.returned
    /\ fn_out' = check_imap(fn_in.mailbox)
    /\ UNCHANGED <<fn_in, hvars, svars, tvars>>

\* the body of main()'s loop takes the pair check_imap returned
LoopBody ==
    /\ fn_in.fn = "check_imap"
    /\ fn_out.returned
    /\ fn_out.raised = "none"
    /\ ~fn_out.polled
    /\ LoopCond(fn_in.ch)
    /\ fn_out' = [fn_out EXCEPT
                    !.polled = TRUE,
                    !.ch = PollStep(fn_in.ch, [code |-> fn_out.code,
                                               err |-> fn_out.error])]
    /\ UNCHANGED <<fn_in, hvars, svars, tvars>>

FnNext == ExtractCode \/ ExtractCodeAgain \/ CheckImap \/ LoopBody

FnSpec == FnInit /\ [][FnNext]_vars

\* ------------------------------------------------ claims on the single calls
CheckReturned == fn_in.fn = "check_imap" /\ fn_out.returned

\* the call that raises the fault of mb is one check_imap gets to
FaultReached(mb) ==
    \/ mb.fault.stage \in {"connect", "login", "select", "search", "logout"}
    \/ /\ mb.fault.stage = "fetch"
       /\ mb.search_status = "OK"
       /\ mb.msg_ids # <<>>
    \/ /\ mb.fault.stage = "parse"
       /\ mb.search_status = "OK"
       /\ mb.msg_ids # <<>>
       /\ mb.fetch_status = "OK"

\* C15: check_imap never raises to its caller; a failure of the login, the
\* connection or any other call of the check comes back as (None, error
\* message), so the loop of the Fetch Process gets a pair from every poll
C15_NeverRaises ==
    CheckReturned =>
      /\ fn_out.raised = "none"
      /\ FaultReached(fn_in.mailbox) =>
           /\ fn_out.code = <<>>
           /\ fn_out.error \in {<<"IMAP error: ">> \o fn_in.mailbox.fault.text,
                                <<"Error: ">> \o fn_in.mailbox.fault.text}

C15_Witness ==
    /\ CheckReturned
    /\ fn_in.mailbox.fault.stage = "connect"
    /\ fn_in.mailbox.fault.kind = "Exception"
    /\ fn_out.polled
    /\ fn_out.ch.last_error = <<"Error: ", "e">>

\* the search of the check found no unseen message and nothing failed
NoMessage ==
    /\ CheckReturned
    /\ fn_in.mailbox.fault = NoFault
    /\ fn_in.mailbox.msg_ids = <<>>

\* C16: when the search finds no unseen message check_imap returns
\* (None, None), and the loop body records no last error for that poll and
\* goes to sleep
C16_NoMessageIsNoError ==
    NoMessage =>
      /\ fn_out.code = <<>>
      /\ fn_out.error = <<>>
      /\ fn_out.polled =>
           /\ fn_out.ch.last_error = fn_in.ch.last_error
           /\ fn_out.ch.code = <<>>
           /\ fn_out.ch.pc = "sleep"

C16_Witness ==
    /\ NoMessage
    /\ fn_in.mailbox.search_status = "OK"
    /\ fn_out.polled
    /\ fn_in.ch.last_error # <<>>
    /\ fn_out.ch.pc = "sleep"

\* the message the check fetched
Fetched == fn_in.mailbox.messages[latest_id(fn_in.mailbox.msg_ids)]

\* s is the end of t
EndsWith(t, s) ==
    /\ Len(s) <= Len(t)
    /\ SubSeq(t, Len(t) - Len(s) + 1, Len(t)) = s

\* C17: a message was fetched and no code is in its subject and body: the
\* pair returned is (None, error) with a non-empty error that carries the
\* subject, unlike the (None, None) of C16
C17_NoCodeNamesSubject ==
    (CheckReturned /\ fn_out.extracted /\ fn_out.code = <<>>) =>
      /\ fn_out.error # <<>>
      /\ Len(fn_out.error) > Len(Fetched.subject)
      /\ EndsWith(fn_out.error, Fetched.subject)

C17_Witness ==
    /\ CheckReturned
    /\ fn_out.extracted
    /\ fn_out.code = <<>>
    /\ Fetched.subject = <<"V", "e", "r", "i", "f", "y">>
    /\ fn_out.error =
         <<"Email found but no code extracted. Subject: ">> \o Fetched.subject

\* the payload of the first part of type ct, <<>> when there is none
FirstOf(parts, ct) ==
    IF \E i \in DOMAIN parts : parts[i].ct = ct
    THEN parts[CHOOSE i \in DOMAIN parts :
                 /\ parts[i].ct = ct
                 /\ \A j \in 1..(i - 1) : parts[j].ct # ct].payload
    ELSE <<>>

\* the first text/plain part, the first HTML part only without a plain one
FirstPlainElseHtml(parts) ==
    IF \E i \in DOMAIN parts : parts[i].ct = "text/plain"
    THEN Decode(FirstOf(parts, "text/plain"))
    ELSE Decode(FirstOf(parts, "text/html"))

\* C18: the body handed to extract_code is the first text/plain part of the
\* message, an HTML part only when the message has no text/plain part,
\* whatever the order of the parts
C18_FirstPlainPart ==
    (CheckReturned /\ fn_out.extracted) =>
      fn_out.combined =
        Fetched.subject \o <<"\n">> \o FirstPlainElseHtml(Fetched.parts)

ExtractReturned == fn_in.fn = "extract_code" /\ fn_out.returned

\* the rules of extract_code by number
Rule(k) ==
    CASE k = 1 -> Pattern1
      [] k = 2 -> Pattern2
      [] k = 3 -> Pattern3
      [] k = 4 -> Pattern4
      [] k = 5 -> Pattern5
      [] k = 6 -> Pattern6

\* C19: extract_code returns what the first rule, in the order 1 to 6, that
\* matches somewhere in the text captured, wherever later rules match; it
\* returns None exactly when no rule matches
C19_FirstRuleWins ==
    ExtractReturned =>
      /\ \A k \in 1..6 :
           (/\ Search(Rule(k), fn_in.text).ok
            /\ \A j \in 1..(k - 1) : ~Search(Rule(j), fn_in.text).ok)
             => fn_out.code = Search(Rule(k), fn_in.text).cap
      /\ fn_out.code = <<>> <=>
           \A k \in 1..6 : ~Search(Rule(k), fn_in.text).ok

C19_Witness ==
    /\ ExtractReturned
    /\ fn_in.text = <<"1", "2", "3", "4", "\n", "y", "o", "u", "r", " ", "c", "o", "d", "e", ":", " ", "5", "6", "7", "8">>
    /\ MatchFrom(Pattern4, 1, fn_in.text, 1).ok
    /\ fn_out.code = <<"5", "6", "7", "8">>

\* the text a call looked for a code in
Searched == IF fn_in.fn = "extract_code" THEN fn_in.text ELSE fn_out.combined

\* 4 to 10 letters and digits
IsCode(c) == Len(c) \in 4..10 /\ \A i \in DOMAIN c : c[i] \in Alnum

\* 4 to 8 digits
IsDigitCode(c) == Len(c) \in 4..8 /\ \A i \in DOMAIN c : c[i] \in Digits

\* C20: every code extract_code returns, and so every code the Fetch Process
\* is about to write to verification_code.txt, is 4 to 10 letters and
\* digits, and 4 to 8 digits when one of the rules 1 to 4 matched
C20_CodeShape ==
    (fn_out.returned /\ fn_out.code # <<>>) =>
      /\ IsCode(fn_out.code)
      /\ (\E k \in 1..4 : Search(Rule(k), Searched).ok)
           => IsDigitCode(fn_out.code)
      /\ fn_out.polled =>
           /\ fn_out.ch.pc = "open_code"
           /\ fn_out.ch.code = fn_out.code

C20_Witness ==
    /\ ExtractReturned
    /\ fn_in.text = <<"p", "i", "n", " ", "A", "B", "1", "2", "c", "d", "3", "4", "5", "6", "7", "8">>
    /\ fn_out.code = <<"A", "B", "1", "2", "c", "d", "3", "4", "5", "6">>

MaxTaskFiles == 2

\* poll_interval of the poll loop of run_session
session_poll_interval == 2

heartbeat_interval == 5

\* --max-lifetime and --timeout, in seconds
Lifetimes == {2, 8}

IdleTimeouts == {2, 8}

\* how long agent.run takes
TaskDurations == {0, 3}

\* --task
InitialTask == [id |-> 0, instruction |-> <<"g", "o">>]

\* what the caller writes to next_task.json: a follow-up instruction, a
\* close instruction, text that is not JSON, JSON that is not an object
TaskContents ==
    { [json |-> TRUE, object |-> TRUE, instruction |-> <<"n", "e", "x", "t">>],
      [json |-> TRUE, object |-> TRUE, instruction |-> <<" ", "C", "l", "o", "s", "e", "\n">>],
      [json |-> FALSE, object |-> FALSE, instruction |-> <<>>],
      [json |-> TRUE, object |-> FALSE, instruction |-> <<>>] }

\* next_task.json with the content c of the file number id
TaskFile(id, c) ==
    [exists |-> TRUE, id |-> id, json |-> c.json, object |-> c.object,
     instruction |-> c.instruction]

\* the file right after open(..., "w")
TruncatedFile(id) == [NoSessionFile EXCEPT !.exists = TRUE, !.id = id]

\* _write_status(state, **extra) as one more write of status.json
WriteStatus(log, state, reason) ==
    Append(log, [state |-> state, close_reason |-> reason])

\* a line of stdout
Line(kind) == [line |-> kind, task |-> 0, errors |-> FALSE, died |-> FALSE]

ResultLine(res) ==
    [line |-> "RESULT", task |-> res.task, errors |-> res.errors,
     died |-> FALSE]

\* RESULT:{"output":null,"errors":["Browser process died"]}
DiedLine == [line |-> "RESULT", task |-> 0, errors |-> TRUE, died |-> TRUE]

\* the process exists
Live == session.pc \notin {"none", "exited", "killed"}

DaemonInit ==
    /\ IdleHandOff
    /\ fn_in = NoCall
    /\ fn_out = NoReturn
    /\ NoDatabase
    /\ NoSessionFiles
    /\ \E l \in Lifetimes, i \in IdleTimeouts :
         session = [NoSession EXCEPT !.pc = "start", !.max_lifetime = l,
                                     !.idle_timeout = i]

\* the interpreter is about to exit: of the locals of run_session only
\* browser_session is read again, by _cleanup
AtExit(se) ==
    [NoSession EXCEPT !.pc = "atexit", !.browser_session = se.browser_session]

\* the process is gone, and its locals with it
Gone(pc) == [NoSession EXCEPT !.pc = pc]

\* what a daemon step leaves alone
OtherThanSession == <<hvars, fvars, tvars>>

\* "browser_session = BrowserSession(...); await browser_session.start()"
StartBrowser ==
    /\ session.pc = "start"
    /\ session' = [session EXCEPT !.browser_session = TRUE, !.pc = "status",
                                  !.session_start = clock]
    /\ browser_alive' = TRUE
    /\ UNCHANGED <<clock, stdout, status_file, next_task_file, result_file,
                   written, ran, OtherThanSession>>

\* the start of the browser raises: the exception leaves run_session
StartFails ==
    /\ session.pc = "start"
    /\ session' = AtExit(session)
    /\ UNCHANGED <<clock, browser_alive, stdout, status_file, next_task_file,
                   result_file, written, ran, OtherThanSession>>

\* _write_status("running") after the start
WriteRunning ==
    /\ session.pc = "status"
    /\ status_file' = WriteStatus(status_file, "running", "")
    /\ session' = [session EXCEPT !.pc = "print_id"]
    /\ UNCHANGED <<clock, browser_alive, stdout, next_task_file, result_file,
                   written, ran, OtherThanSession>>

\* print(f"SESSION_ID:{session_id}"); the initial task is next
PrintSessionId ==
    /\ session.pc = "print_id"
    /\ stdout' = Append(stdout, Line("SESSION_ID"))
    /\ session' = [session EXCEPT !.task = InitialTask, !.pc = "task_status"]
    /\ UNCHANGED <<clock, browser_alive, status_file, next_task_file,
                   result_file, written, ran, OtherThanSession>>

\* _run_task: _write_status("running")
TaskStatus ==
    /\ session.pc = "task_status"
    /\ status_file' = WriteStatus(status_file, "running", "")
    /\ session' = [session EXCEPT !.pc = "agent"]
    /\ UNCHANGED <<clock, browser_alive, stdout, next_task_file, result_file,
                   written, ran, OtherThanSession>>

\* _run_task: the Agent is built and agent.run starts
AgentStart ==
    /\ session.pc = "agent"
    /\ ran' = Append(ran, session.task.id)
    /\ session' = [session EXCEPT !.pc = "agent_run"]
    /\ UNCHANGED <<clock, browser_alive, stdout, status_file, next_task_file,
                   result_file, written, OtherThanSession>>

\* agent.run returns after d seconds: result.json is written and _run_task
\* returns the result
AgentReturns(d) ==
    /\ session.pc = "agent_run"
    /\ clock' = clock + d
    /\ result_file' = Append(result_file, session.task.id)
    /\ session' = [session EXCEPT
                     !.result = [task |-> session.task.id, errors |-> FALSE],
                     !.pc = "print_screenshot"]
    /\ UNCHANGED <<browser_alive, stdout, status_file, next_task_file, written,
                   ran, OtherThanSession>>

\* _run_task raises after d seconds: "except Exception" builds the result
\* and writes result.json
AgentRaises(d) ==
    /\ session.pc = "agent_run"
    /\ clock' = clock + d
    /\ result_file' = Append(result_file, session.task.id)
    /\ session' = [session EXCEPT
                     !.result = [task |-> session.task.id, errors |-> TRUE],
                     !.pc = "print_screenshot"]
    /\ UNCHANGED <<browser_alive, stdout, status_file, next_task_file, written,
                   ran, OtherThanSession>>

AfterPrint_waiting_first(pc) ==
    CASE pc = "print_screenshot" -> "print_waiting"
      [] pc = "print_waiting" -> "print_result"
      [] pc = "print_result" -> "poll"

\* the three prints after a task, in the order of the code
AfterPrint(pc) ==
    CASE pc = "print_screenshot" -> "print_result"
      [] pc = "print_result" -> "print_waiting"
      [] pc = "print_waiting" -> "poll"

\* where the code goes on after the prints: after the initial task it sets
\* up the poll loop, after a follow-up it sleeps
AfterTask(se, pc) ==
    IF pc # "poll" THEN [se EXCEPT !.pc = pc]
    ELSE IF se.initial
    THEN [se EXCEPT !.poll_count = 0, !.last_activity = clock,
                    !.initial = FALSE, !.pc = "loop"]
    ELSE [se EXCEPT !.pc = "sleep"]

\* print(f"SCREENSHOT:{screenshot_file}")
PrintScreenshot ==
    /\ session.pc = "print_screenshot"
    /\ stdout' = Append(stdout, Line("SCREENSHOT"))
    /\ session' = AfterTask(session, AfterPrint(session.pc))
    /\ UNCHANGED <<clock, browser_alive, status_file, next_task_file,
                   result_file, written, ran, OtherThanSession>>

\* print(f"RESULT:{json.dumps(result)}")
PrintResult ==
    /\ session.pc = "print_result"
    /\ stdout' = Append(stdout, ResultLine(session.result))
    /\ session' = AfterTask(session, AfterPrint(session.pc))
    /\ UNCHANGED <<clock, browser_alive, status_file, next_task_file,
                   result_file, written, ran, OtherThanSession>>

\* print("WAITING")
PrintWaiting ==
    /\ session.pc = "print_waiting"
    /\ stdout' = Append(stdout, Line("WAITING"))
    /\ session' = AfterTask(session, AfterPrint(session.pc))
    /\ UNCHANGED <<clock, browser_alive, status_file, next_task_file,
                   result_file, written, ran, OtherThanSession>>

\* the top of "while True" up to the look for next_task.json
LifetimeOver == clock - session.session_start > session.max_lifetime

IdleOver == clock - session.last_activity > session.idle_timeout

HeartbeatDue == (session.poll_count + 1) % heartbeat_interval = 0

\* "Max lifetime check": print MAX_LIFETIME_REACHED and break
MaxLifetimeReached ==
    /\ session.pc = "loop"
    /\ LifetimeOver
    /\ stdout' = Append(stdout, Line("MAX_LIFETIME_REACHED"))
    /\ session' = [session EXCEPT !.poll_count = @ + 1, !.pc = "shutdown"]
    /\ UNCHANGED <<clock, browser_alive, status_file, next_task_file,
                   result_file, written, ran, OtherThanSession>>

\* "Idle timeout check": break
IdleTimeout ==
    /\ session.pc = "loop"
    /\ ~LifetimeOver
    /\ IdleOver
    /\ session' = [session EXCEPT !.poll_count = @ + 1, !.pc = "shutdown"]
    /\ UNCHANGED <<clock, browser_alive, stdout, status_file, next_task_file,
                   result_file, written, ran, OtherThanSession>>

\* "CDP heartbeat check": the browser does not answer
BrowserDied ==
    /\ session.pc = "loop"
    /\ ~LifetimeOver
    /\ ~IdleOver
    /\ HeartbeatDue
    /\ ~browser_alive
    /\ stdout' = Append(stdout, DiedLine)
    /\ session' = [session EXCEPT !.poll_count = @ + 1, !.pc = "shutdown"]
    /\ UNCHANGED <<clock, browser_alive, status_file, next_task_file,
                   result_file, written, ran, OtherThanSession>>

\* "if next_task_file.exists()"
CheckNextTask ==
    /\ session.pc = "loop"
    /\ ~LifetimeOver
    /\ ~IdleOver
    /\ HeartbeatDue => browser_alive
    /\ session' = [session EXCEPT
                     !.poll_count = @ + 1,
                     !.pc = IF next_task_file.exists THEN "read" ELSE "sleep"]
    /\ UNCHANGED <<clock, browser_alive, stdout, status_file, next_task_file,
                   result_file, written, ran, OtherThanSession>>

\* "task_data = json.loads(next_task_file.read_text())": text that is not
\* JSON raises and "except Exception" sleeps and goes on with the loop
ReadTask ==
    /\ session.pc = "read"
    /\ session' =
         IF next_task_file.exists /\ next_task_file.json
         THEN [session EXCEPT
                 !.task_data = [id |-> next_task_file.id,
                                object |-> next_task_file.object,
                                instruction |-> next_task_file.instruction],
                 !.pc = "unlink"]
         ELSE [session EXCEPT !.pc = "sleep"]
    /\ UNCHANGED <<clock, browser_alive, stdout, status_file, next_task_file,
                   result_file, written, ran, OtherThanSession>>

unlink_task_kept(f) == f

\* next_task_file.unlink()
unlink_task(f) == NoSessionFile

UnlinkTask ==
    /\ session.pc = "unlink"
    /\ next_task_file' = unlink_task(next_task_file)
    /\ session' = [session EXCEPT !.pc = "dispatch"]
    /\ UNCHANGED <<clock, browser_alive, stdout, status_file, result_file,
                   written, ran, OtherThanSession>>

\* instruction.lower().strip()
Normalised(instruction) ==
    strip([i \in DOMAIN instruction |-> Lower(instruction[i])])

IsClose(instruction) == Normalised(instruction) = <<"c", "l", "o", "s", "e">>

\* "instruction = task_data.get(...)" raises for JSON that is not an
\* object; "close" breaks; every other instruction is the next task
Dispatch ==
    /\ session.pc = "dispatch"
    /\ session' =
         IF ~session.task_data.object
         THEN AtExit(session)
         ELSE IF IsClose(session.task_data.instruction)
         THEN [session EXCEPT !.pc = "shutdown"]
         ELSE [session EXCEPT
                 !.last_activity = clock,
                 !.task = [id |-> session.task_data.id,
                           instruction |-> session.task_data.instruction],
                 !.pc = "task_status"]
    /\ UNCHANGED <<clock, browser_alive, stdout, status_file, next_task_file,
                   result_file, written, ran, OtherThanSession>>

\* await asyncio.sleep(poll_interval)
SessionSleep ==
    /\ session.pc = "sleep"
    /\ clock' = clock + session_poll_interval
    /\ session' = [session EXCEPT !.pc = "loop"]
    /\ UNCHANGED <<browser_alive, stdout, status_file, next_task_file,
                   result_file, written, ran, OtherThanSession>>

\* "Shutdown": the browser is killed, browser_session = None and
\* _write_status("closed", close_reason="normal"); run_session returns
Shutdown ==
    /\ session.pc = "shutdown"
    /\ browser_alive' = FALSE
    /\ status_file' = WriteStatus(status_file, "closed", "normal")
    /\ session' = AtExit([session EXCEPT !.browser_session = FALSE])
    /\ UNCHANGED <<clock, stdout, next_task_file, result_file, written, ran,
                   OtherThanSession>>

CleanupStatus_none(log) == log

\* _write_status("closed", close_reason="cleanup")
CleanupStatus(log) == WriteStatus(log, "closed", "cleanup")

\* the interpreter exits and runs _cleanup, registered with atexit
Cleanup ==
    /\ session.pc = "atexit"
    /\ browser_alive' = IF session.browser_session THEN FALSE ELSE browser_alive
    /\ status_file' = CleanupStatus(status_file)
    /\ session' = Gone("exited")
    /\ UNCHANGED <<clock, stdout, next_task_file, result_file, written, ran,
                   OtherThanSession>>

\* SIGTERM or SIGINT: the handler calls sys.exit(0)
Signal ==
    /\ Live
    /\ session.pc # "atexit"
    /\ session' = AtExit(session)
    /\ UNCHANGED <<clock, browser_alive, stdout, status_file, next_task_file,
                   result_file, written, ran, OtherThanSession>>

\* SIGKILL: no handler and no atexit
Kill9 ==
    /\ Live
    /\ session' = Gone("killed")
    /\ UNCHANGED <<clock, browser_alive, stdout, status_file, next_task_file,
                   result_file, written, ran, OtherThanSession>>

\* the browser process dies by itself
BrowserDies ==
    /\ Live
    /\ browser_alive
    /\ browser_alive' = FALSE
    /\ UNCHANGED <<session, clock, stdout, status_file, next_task_file,
                   result_file, written, ran, OtherThanSession>>

\* the caller opens next_task.json for writing
CallerOpen ==
    /\ Live
    /\ ~written.open
    /\ Len(written.files) < MaxTaskFiles
    /\ \E c \in TaskContents :
         written' = [files |-> Append(written.files, c), open |-> TRUE]
    /\ next_task_file' = TruncatedFile(Len(written.files) + 1)
    /\ UNCHANGED <<session, clock, browser_alive, stdout, status_file,
                   result_file, ran, OtherThanSession>>

\* the caller writes the content and closes the file; the content is lost
\* when the daemon has unlinked the file meanwhile (what the caller does once
\* the daemon is gone is left out)
CallerWrite ==
    /\ Live
    /\ written.open
    /\ written' = [written EXCEPT !.open = FALSE]
    /\ next_task_file' =
         IF next_task_file.exists /\ next_task_file.id = Len(written.files)
         THEN TaskFile(Len(written.files), written.files[Len(written.files)])
         ELSE next_task_file
    /\ UNCHANGED <<session, clock, browser_alive, stdout, status_file,
                   result_file, ran, OtherThanSession>>

DaemonNext ==
    \/ StartBrowser
    \/ StartFails
    \/ WriteRunning
    \/ PrintSessionId
    \/ TaskStatus
    \/ AgentStart
    \/ \E d \in TaskDurations : AgentReturns(d)
    \/ \E d \in TaskDurations : AgentRaises(d)
    \/ PrintScreenshot
    \/ PrintResult
    \/ PrintWaiting
    \/ MaxLifetimeReached
    \/ IdleTimeout
    \/ BrowserDied
    \/ CheckNextTask
    \/ ReadTask
    \/ UnlinkTask
    \/ Dispatch
    \/ SessionSleep
    \/ Shutdown
    \/ Cleanup
    \/ Signal
    \/ Kill9
    \/ BrowserDies
    \/ CallerOpen
    \/ CallerWrite

DaemonSpec == DaemonInit /\ [][DaemonNext]_vars

\* ----------------------------------------- claims on the session daemon
\* the line the protocol has at position i of stdout while tasks are run:
\* SESSION_ID, then SCREENSHOT, RESULT, WAITING for each task started
ProtocolLine(i) ==
    IF i = 1 THEN Line("SESSION_ID")
    ELSE IF i % 3 = 2 THEN Line("SCREENSHOT")
    ELSE IF i % 3 = 1 THEN Line("WAITING")
    ELSE [line |-> "RESULT", task |-> ran[i \div 3],
          errors |-> stdout[i].errors, died |-> FALSE]

\* the daemon is between two tasks or about to start one
BetweenTasks ==
    session.pc \in {"loop", "sleep", "read", "unlink", "dispatch",
                    "task_status", "agent", "shutdown"}

WaitingLines == {i \in DOMAIN stdout : stdout[i].line = "WAITING"}

\* C22: SESSION_ID is the first line and printed once; each task run, also
\* one that raised, gives SCREENSHOT, RESULT, WAITING in this order, so each
\* WAITING follows the RESULT of the task just run; nothing follows
\* MAX_LIFETIME_REACHED
C22_StdoutProtocol ==
    /\ \A i \in DOMAIN stdout :
         \/ i <= 1 + 3 * Len(ran) /\ stdout[i] = ProtocolLine(i)
         \/ /\ i = Len(stdout)
            /\ i % 3 = 2
            /\ stdout[i] \in {Line("MAX_LIFETIME_REACHED"), DiedLine}
    /\ BetweenTasks => Cardinality(WaitingLines) = Len(ran)

C22_Witness ==
    /\ Len(stdout) = 8
    /\ stdout[6].line = "RESULT"
    /\ stdout[6].errors
    /\ stdout[6].task = 1
    /\ stdout[7].line = "WAITING"
    /\ stdout[8].line = "MAX_LIFETIME_REACHED"
    /\ session.pc = "exited"

\* the states written to status.json so far, in order
StatesWritten == [i \in DOMAIN status_file |-> status_file[i].state]

ContentOf(id) == written.files[id]

\* the tasks started never come from a file still on disk, from one that
\* is no JSON object, or from a close instruction, and no file is run twice
RunsAreOfDeletedTasks ==
    /\ \A i, j \in DOMAIN ran : i # j => ran[i] # ran[j]
    /\ \A i \in DOMAIN ran :
         ran[i] # 0 =>
           /\ ~(next_task_file.exists /\ next_task_file.id = ran[i])
           /\ ContentOf(ran[i]).json
           /\ ContentOf(ran[i]).object
           /\ ~IsClose(ContentOf(ran[i]).instruction)

\* the parts of C29 about one step of the daemon
ReadSteps ==
    /\ (session.pc = "read" /\ session'.pc = "sleep") =>
         /\ next_task_file' = next_task_file
         /\ ran' = ran
         /\ ~(next_task_file.exists /\ next_task_file.json)
    /\ (session.pc = "read" /\ session'.pc = "unlink") =>
         /\ next_task_file.exists
         /\ next_task_file.json
    /\ (session.pc = "dispatch" /\ session'.pc = "task_status") =>
         /\ ~next_task_file.exists \/ next_task_file.id # session.task_data.id
         /\ session'.task.id = session.task_data.id
    /\ (/\ session.pc = "dispatch"
        /\ session' # session
        /\ session.task_data.object
        /\ IsClose(session.task_data.instruction)) =>
         (session'.pc \in {"shutdown", "atexit", "killed"} /\ ran' = ran)
    /\ ran' # ran => session.pc = "agent"

\* C29: a next_task.json that was read is deleted before its instruction
\* runs, so a task file is run at most once; a file that cannot be parsed
\* is neither run nor deleted by the read; "close" runs no task and ends
\* the poll loop
C29_TaskFileRunOnce == [][ReadSteps /\ RunsAreOfDeletedTasks']_vars

C29_Witness ==
    /\ Len(written.files) = 2
    /\ ran = <<0, 2>>
    /\ ~ContentOf(1).json
    /\ ~next_task_file.exists
    /\ session.pc = "agent_run"

\* --------------------------------------- further claims on the hand-off
\* C23: every invocation returns a success or an error result, after at most
\* ceil(max_wait_seconds/5) polls of the files (none for max_wait_seconds
\* <= 0), also when the child cannot be spawned, never exits, outlives its
\* timeout or ends without a sentinel file
C23_AlwaysReturns ==
    /\ [](cpolls <= CeilPolls(max_wait_seconds))
    /\ [](cpc = "done" =>
            /\ result.kind \in {"success", "child_error", "timeout",
                                "spawn_failed"}
            /\ result.success <=> result.kind = "success"
            /\ result.kind = "timeout" => cpolls = CeilPolls(max_wait_seconds))
    /\ \A k \in Attempts :
         (attempt = k /\ cpc \notin {"idle", "done"})
           ~> (attempt = k /\ cpc = "done")

\* the child ended without a sentinel file and the coordinator used up its
\* polls
C23_Witness ==
    /\ cpc = "done"
    /\ result.kind = "timeout"
    /\ cpolls = CeilPolls(max_wait_seconds)
    /\ cpolls >= 2
    /\ child[attempt].status = "exited"
    /\ child[attempt].opened = {}
    /\ ~code_file.exists
    /\ ~error_file.exists

\* an iteration of the coordinator's loop is made
PollMade == cpc = "poll" /\ cpc' # "poll" /\ cpolls' = cpolls + 1

\* the Fetch Process of this invocation has written the error file and
\* exited, and no code is there to be returned
ErrorLeftBehind ==
    /\ error_file.exists
    /\ error_file.writer = "fetch"
    /\ error_file.by = attempt
    /\ child[attempt].status = "exited"
    /\ "error" \in child[attempt].wrote
    /\ ~(code_file.exists /\ strip(code_file.content) # <<>>)

\* C24: once the Fetch Process has written the error file and exited, and no
\* code is there, the next poll of the coordinator returns
\* "Email check failed: " with the content of the file.
C24_ErrorAtNextPoll ==
    [][(PollMade /\ ErrorLeftBehind) =>
         /\ Returns("child_error")
         /\ result' = ChildErrorResult(strip(error_file.content))]_vars

\* the sentinel files written by a Fetch Process
FetchFiles == {f \in {code_file, error_file} : f.exists /\ f.writer = "fetch"}

\* C25: over invocations that follow one another at most one Fetch Process
\* is alive, the one of the invocation that is polling; the child of an
\* invocation is dead when the next one deletes the files and spawns, and a
\* Fetch Process writes only during its own invocation.
C25_OneFetchProcessAlive ==
    /\ Cardinality({a \in Attempts : Running(a)}) <= 1
    /\ \A a \in Attempts :
         Running(a) => a = attempt /\ cpc \in {"poll", "sleep"}
    /\ \A f \in FetchFiles : f.by = f.attempt

\* C25 witness: the child of a second invocation runs and has written, the
\* first invocation's child is no more
C25_Witness ==
    /\ attempt = 2
    /\ Running(2)
    /\ child[1].status = "gone"
    /\ \E f \in FetchFiles : f.by = 2

\* the coordinator's look at verification_code.txt finds a code
NonEmptyCode == code_file.exists /\ strip(code_file.content) # <<>>

\* C26: a poll that finds both files, the code file not empty, returns
\* success with the code, whether or not the child's exit has been seen: the
\* code file is looked at first and the error file not at all.
C26_CodeBeforeError ==
    [][(PollMade /\ NonEmptyCode /\ error_file.exists) =>
         /\ Returns("success")
         /\ result' = SuccessResult(strip(code_file.content))]_vars

\* C26 witness: success returned with the error file there and the child's
\* exit already seen by the coordinator
C26_Witness ==
    /\ cpc = "done"
    /\ result.kind = "success"
    /\ NonEmptyCode
    /\ result = SuccessResult(strip(code_file.content))
    /\ error_file.exists
    /\ error_file.content # <<>>
    /\ returncode = <<1>>

\* verification_code.txt is there but empty or all whitespace
BlankCode == code_file.exists /\ strip(code_file.content) = <<>>

\* C27: a poll that finds verification_code.txt empty or all whitespace
\* does not return success: it goes on to the error file, returns its
\* content when the child's exit has been seen, and sleeps otherwise; no
\* success result ever carries an empty code.
C27_BlankCodeNotReturned ==
    /\ [](result.kind = "success" => Len(result.text) > 1)
    /\ [][(PollMade /\ BlankCode) =>
            IF ErrorSeen
            THEN /\ Returns("child_error")
                 /\ result' = ChildErrorResult(strip(error_file.content))
            ELSE /\ cpc' = "sleep"
                 /\ result' = result
                 /\ child' = child]_vars

\* C27 witness: the wait ran out, after two polls, over a code file that the
\* Fetch Process had opened and not yet written
C27_Witness ==
    /\ cpc = "done"
    /\ result.kind = "timeout"
    /\ BlankCode
    /\ code_file.writer = "fetch"
    /\ code_file.by = attempt
    /\ child[attempt].status = "killed"
    /\ cpolls >= 2

\* ------------------------------------------------------------ TaskDatabase
\* db is the tasks table, in rowid order, with the number of calls made so
\* far (it stands for the time) and cursor.lastrowid; listed is what the last
\* list_tasks returned.
MaxCalls == 4

Titles == {"Update TISC Presentation", "Call"}

\* a priority column that is NULL, and "priority=None"
None == 0

Priorities == {1, 2}

\* the statuses a caller may ask list_tasks for
StatusArgs == {"pending", "completed", "done"}

\* the ids a caller may give: those of the table, 0 and one beyond the table
TaskIds == 0..(MaxCalls + 1)

\* CURRENT_TIMESTAMP at the next call
Now == db.calls + 1

\* the row of "INSERT INTO tasks (title, description, priority, tags,
\* context, due_date)": id from AUTOINCREMENT, status, created_at and
\* updated_at from their DEFAULTs
NewRow(id, title, priority) ==
    [id |-> id, title |-> title, priority |-> priority, status |-> "pending",
     created_at |-> Now, updated_at |-> Now]

\* no row is ever deleted, so AUTOINCREMENT gives the next number
NextId == Len(db.tasks) + 1

OtherThanDatabase == <<hvars, fvars, svars>>

\* add_task(title, priority=priority)
add_task(title, priority) ==
    /\ db.calls < MaxCalls
    /\ db' = [tasks |-> Append(db.tasks, NewRow(NextId, title, priority)),
              calls |-> db.calls + 1,
              lastrowid |-> NextId]
    /\ UNCHANGED listed
    /\ UNCHANGED OtherThanDatabase

\* add_task(None): "title TEXT NOT NULL" makes the INSERT raise
\* sqlite3.IntegrityError, and no row is added
add_task_raises ==
    /\ db.calls < MaxCalls
    /\ db' = [db EXCEPT !.calls = @ + 1]
    /\ UNCHANGED listed
    /\ UNCHANGED OtherThanDatabase

\* "WHERE status = ?" and, unless priority is None, "AND priority = ?"
Selected(row, status, priority) ==
    /\ row.status = status
    /\ priority # None => row.priority = priority

\* list_tasks(status, priority)
list_tasks(status, priority) ==
    /\ db.calls < MaxCalls
    /\ listed' = SelectSeq(db.tasks, LAMBDA row : Selected(row, status, priority))
    /\ db' = [db EXCEPT !.calls = @ + 1]
    /\ UNCHANGED OtherThanDatabase

WhereId_any(row, task_id) == TRUE

\* "WHERE id = ?"
WhereId(row, task_id) == row.id = task_id

\* "UPDATE tasks SET status = 'completed', updated_at = CURRENT_TIMESTAMP"
Completed(row) == [row EXCEPT !.status = "completed", !.updated_at = Now]

\* complete_task(task_id)
complete_task(task_id) ==
    /\ db.calls < MaxCalls
    /\ db' = [db EXCEPT
                !.tasks = [i \in DOMAIN db.tasks |->
                             IF WhereId(db.tasks[i], task_id)
                             THEN Completed(db.tasks[i])
                             ELSE db.tasks[i]],
                !.calls = @ + 1]
    /\ UNCHANGED listed
    /\ UNCHANGED OtherThanDatabase

DbNext ==
    \/ \E title \in Titles, priority \in Priorities \cup {None} :
         add_task(title, priority)
    \/ add_task_raises
    \/ \E status \in StatusArgs, priority \in Priorities \cup {None} :
         list_tasks(status, priority)
    \/ \E task_id \in TaskIds : complete_task(task_id)

\* a TaskDatabase on a new file, after _create_table
DbSpec == Init /\ [][DbNext]_vars

\* ----------------------------------------------- claims on the TaskDatabase
\* the row with this id, as a set (empty when there is none)
RowsOf(tasks, id) == {tasks[i] : i \in {j \in DOMAIN tasks : tasks[j].id = id}}

\* the ids of the table
IdsOf(tasks) == {tasks[i].id : i \in DOMAIN tasks}

\* C30: a task is pending from its add_task on and is in what
\* list_tasks('pending') returns, until complete_task is called with its id;
\* from then on it is completed whatever is called (nothing moves a task back
\* to pending); complete_task changes the row with that id only, and no row
\* for an unknown id.
C30_PendingUntilCompleted ==
    /\ [](\A i \in DOMAIN db.tasks :
            /\ db.tasks[i].id = i
            /\ db.tasks[i].status \in {"pending", "completed"})
    /\ [][\A title \in Titles, priority \in Priorities \cup {None} :
            add_task(title, priority) =>
              /\ RowsOf(db'.tasks, db'.lastrowid) # {}
              /\ \A r \in RowsOf(db'.tasks, db'.lastrowid) :
                   /\ r.status = "pending"
                   /\ r.title = title
                   /\ r.priority = priority
              /\ db'.lastrowid \notin IdsOf(db.tasks)
              /\ SubSeq(db'.tasks, 1, Len(db.tasks)) = db.tasks]_vars
    /\ [][list_tasks("pending", None) =>
            /\ db'.tasks = db.tasks
            /\ \A id \in IdsOf(db.tasks) :
                 (\E r \in RowsOf(db.tasks, id) : r.status = "pending")
                   <=> (\E k \in DOMAIN listed' : listed'[k].id = id)]_vars
    /\ [][\A id \in IdsOf(db.tasks) :
            /\ id \in IdsOf(db'.tasks)
            /\ \A r \in RowsOf(db.tasks, id), r2 \in RowsOf(db'.tasks, id) :
                 /\ r.status = "completed" => r2.status = "completed"
                 /\ r2 # r => /\ complete_task(id)
                              /\ r2 = [r EXCEPT !.status = "completed",
                                                !.updated_at = r2.updated_at]]_vars
    /\ [][\A task_id \in TaskIds :
            complete_task(task_id) =>
              /\ Len(db'.tasks) = Len(db.tasks)
              /\ \A r \in RowsOf(db'.tasks, task_id) : r.status = "completed"
              /\ task_id \notin IdsOf(db.tasks) => db'.tasks = db.tasks]_vars

\* C30 witness: the first of two tasks was completed, was then left out of a
\* list_tasks('pending') that returned the second, and a complete_task with
\* an unknown id followed
C30_Witness ==
    /\ Len(db.tasks) = 2
    /\ db.tasks[1].status = "completed"
    /\ db.tasks[1].updated_at > db.tasks[1].created_at
    /\ db.tasks[2].status = "pending"
    /\ db.tasks[2].updated_at = db.tasks[2].created_at
    /\ listed = <<db.tasks[2]>>
    /\ db.calls > db.tasks[1].updated_at + 1
====
